---- MODULE Spec2Model ----
(***************************************************************************)
(* Citation detection and resolution engine of the TOA generator:          *)
(* app/detection/detector.py, app/detection/short_form.py,                 *)
(* app/classifier/rule_classifier.py, app/models.py and the detection      *)
(* worker of gui/tabs/upload_tab.py.                                       *)
(*                                                                         *)
(* A Python str is modelled as a sequence of one-character strings, so     *)
(* that normalisation, sort keys and the classifier's text tests are       *)
(* computed character by character as the code computes them.              *)
(***************************************************************************)
EXTENDS Integers, Sequences, FiniteSets, TLC

(***************************************************************************)
(* Characters and the str methods the engine uses.                         *)
(***************************************************************************)

\* The characters of the sample texts, in ascending code point order.
CHARSET ==
  << "\n", " ", "&", "'", "(", ")", "*", ",", ".",
     "0", "1", "2", "3", "4", "5", "6", "7", "8", "9", ";",
     "A", "B", "C", "D", "E", "F", "G", "H", "I", "J", "K", "L", "M",
     "N", "O", "P", "Q", "R", "S", "T", "U", "V", "W", "X", "Y", "Z", "_",
     "a", "b", "c", "d", "e", "f", "g", "h", "i", "j", "k", "l", "m",
     "n", "o", "p", "q", "r", "s", "t", "u", "v", "w", "x", "y", "z", "§" >>

UPPER ==
  << "A", "B", "C", "D", "E", "F", "G", "H", "I", "J", "K", "L", "M",
     "N", "O", "P", "Q", "R", "S", "T", "U", "V", "W", "X", "Y", "Z" >>

LOWER ==
  << "a", "b", "c", "d", "e", "f", "g", "h", "i", "j", "k", "l", "m",
     "n", "o", "p", "q", "r", "s", "t", "u", "v", "w", "x", "y", "z" >>

Range(f) == {f[i] : i \in DOMAIN f}

DIGIT == {"0", "1", "2", "3", "4", "5", "6", "7", "8", "9"}

\* \s of the re module, restricted to CHARSET.
SPACE == {"\n", " "}

\* \S of the re module, restricted to CHARSET.
NONSPACE == Range(CHARSET) \ SPACE

\* The order of two characters is the order of their code points.
ord(c) == CHOOSE i \in DOMAIN CHARSET : CHARSET[i] = c

lower_char(c) ==
  IF c \in Range(UPPER) THEN LOWER[CHOOSE i \in DOMAIN UPPER : UPPER[i] = c] ELSE c

upper_char(c) ==
  IF c \in Range(LOWER) THEN UPPER[CHOOSE i \in DOMAIN LOWER : LOWER[i] = c] ELSE c

\* str.lower()
lower(s) == [i \in 1..Len(s) |-> lower_char(s[i])]

\* str.strip()
strip(s) ==
  LET keep == {i \in 1..Len(s) : s[i] \notin SPACE}
  IN IF keep = {} THEN <<>>
     ELSE SubSeq(s, CHOOSE i \in keep : \A j \in keep : i <= j,
                    CHOOSE i \in keep : \A j \in keep : j <= i)

\* str.lstrip(chars)
lstrip(s, chars) ==
  LET keep == {i \in 1..Len(s) : s[i] \notin chars}
  IN IF keep = {} THEN <<>>
     ELSE SubSeq(s, CHOOSE i \in keep : \A j \in keep : i <= j, Len(s))

\* str.startswith(prefix)
startswith(s, prefix) ==
  Len(prefix) <= Len(s) /\ SubSeq(s, 1, Len(prefix)) = prefix

\* The index of the first occurrence of sub in s (str.find, 1-based), 0 if none.
find(s, sub) ==
  LET at == {i \in 1..(Len(s) - Len(sub) + 1) : SubSeq(s, i, i + Len(sub) - 1) = sub}
  IN IF at = {} THEN 0 ELSE CHOOSE i \in at : \A j \in at : i <= j

\* sub in s
contains(s, sub) == Len(sub) = 0 \/ find(s, sub) # 0

\* s.split(sep)[0]
split_first(s, sep) ==
  IF find(s, sep) = 0 THEN s ELSE SubSeq(s, 1, find(s, sep) - 1)

\* a < b on str: lexicographic on code points.
RECURSIVE str_lt(_, _)
str_lt(a, b) ==
  IF b = <<>> THEN FALSE
  ELSE IF a = <<>> THEN TRUE
  ELSE IF a[1] # b[1] THEN ord(a[1]) < ord(b[1])
  ELSE str_lt(Tail(a), Tail(b))

\* re.sub(r"[class]+", repl, s): every maximal run of class characters
\* becomes one repl.
RECURSIVE sub_runs(_, _, _)
sub_runs(class, repl, s) ==
  IF s = <<>> THEN <<>>
  ELSE IF s[1] \in class THEN
         IF Len(s) > 1 /\ s[2] \in class THEN sub_runs(class, repl, Tail(s))
         ELSE repl \o sub_runs(class, repl, Tail(s))
  ELSE <<s[1]>> \o sub_runs(class, repl, Tail(s))

\* re.sub(r"[class]", "", s): every class character is removed.
remove_chars(class, s) == SelectSeq(s, LAMBDA c : c \notin class)

(***************************************************************************)
(* Regular expressions, as the re module matches them: backtracking, the   *)
(* alternatives of a choice tried left to right, repetition greedy.  The   *)
(* value of a pattern at a position is the sequence of the positions its   *)
(* match can end at, in the order the matcher tries them.                  *)
(***************************************************************************)

Set(chars) == [t |-> "set", s |-> chars]
Lit(c) == Set({c})
\* A letter under re.IGNORECASE.
LitI(c) == Set({lower_char(c), upper_char(c)})
Cat(rs) == [t |-> "cat", rs |-> rs]
Alt(rs) == [t |-> "alt", rs |-> rs]
Star(r) == [t |-> "star", r |-> r]
Opt(r) == [t |-> "opt", r |-> r]
Plus(r) == Cat(<<r, Star(r)>>)
Word(w) == Cat([i \in 1..Len(w) |-> Lit(w[i])])
WordI(w) == Cat([i \in 1..Len(w) |-> LitI(w[i])])

\* \s* and \s+
SP0 == Star(Set(SPACE))
SP1 == Plus(Set(SPACE))

\* seq without the later copies of an element it already holds.
RECURSIVE dedup(_, _)
dedup(seq, seen) ==
  IF seq = <<>> THEN <<>>
  ELSE IF seq[1] \in seen THEN dedup(Tail(seq), seen)
  ELSE <<seq[1]>> \o dedup(Tail(seq), seen \cup {seq[1]})

RECURSIVE re_ends(_, _, _)
RECURSIVE re_ends_from(_, _, _, _)
RECURSIVE re_ends_cat(_, _, _, _)
RECURSIVE re_ends_alt(_, _, _, _)

\* The ends of r over the start positions starts[k..], in order.
re_ends_from(r, s, starts, k) ==
  IF k > Len(starts) THEN <<>>
  ELSE re_ends(r, s, starts[k]) \o re_ends_from(r, s, starts, k + 1)

re_ends_cat(rs, k, s, starts) ==
  IF k > Len(rs) THEN starts
  ELSE re_ends_cat(rs, k + 1, s, dedup(re_ends_from(rs[k], s, starts, 1), {}))

re_ends_alt(rs, k, s, i) ==
  IF k > Len(rs) THEN <<>>
  ELSE re_ends(rs[k], s, i) \o re_ends_alt(rs, k + 1, s, i)

re_ends(r, s, i) ==
  CASE r.t = "set"  -> IF i <= Len(s) /\ s[i] \in r.s THEN <<i + 1>> ELSE <<>>
    [] r.t = "cat"  -> re_ends_cat(r.rs, 1, s, <<i>>)
    [] r.t = "alt"  -> dedup(re_ends_alt(r.rs, 1, s, i), {})
    [] r.t = "opt"  -> dedup(re_ends(r.r, s, i) \o <<i>>, {})
    [] r.t = "star" ->
         dedup(re_ends_from(r, s, SelectSeq(re_ends(r.r, s, i), LAMBDA j : j > i), 1)
               \o <<i>>, {})

\* The first way, in the matcher's order, to match the parts one after the
\* other from position i: the positions where each part starts, then the
\* end of the match; <<>> if there is none.
RECURSIVE re_path(_, _, _, _)
RECURSIVE re_path_try(_, _, _, _, _)
re_path(parts, k, s, i) ==
  IF k > Len(parts) THEN <<i>>
  ELSE LET p == re_path_try(parts, k, s, re_ends(parts[k], s, i), 1)
       IN IF p = <<>> THEN <<>> ELSE <<i>> \o p

re_path_try(parts, k, s, ends, n) ==
  IF n > Len(ends) THEN <<>>
  ELSE LET p == re_path(parts, k + 1, s, ends[n])
       IN IF p # <<>> THEN p ELSE re_path_try(parts, k, s, ends, n + 1)

\* re.match(parts, s): the boundaries of the match at the start of s.
re_match(parts, s) == re_path(parts, 1, s, 1)

\* re.search(parts, s): the boundaries of the leftmost match.
RECURSIVE re_search_from(_, _, _)
re_search_from(parts, s, i) ==
  IF i > Len(s) + 1 THEN <<>>
  ELSE LET p == re_path(parts, 1, s, i)
       IN IF p # <<>> THEN p ELSE re_search_from(parts, s, i + 1)

re_search(parts, s) == re_search_from(parts, s, 1)

\* m.group(g) of a match with boundaries p, part g of the pattern.
group(s, p, g) == SubSeq(s, p[g], p[g + 1] - 1)

(***************************************************************************)
(* app/models.py                                                           *)
(***************************************************************************)

CASES == "Cases"
STATUTES == "Statutes"
CONSTITUTIONAL == "Constitutional Provisions"
RULES == "Rules"
OTHER_AUTHORITIES == "Other Authorities"

\* class CitationCategory, in declaration order.
CitationCategory == <<CASES, STATUTES, CONSTITUTIONAL, RULES, OTHER_AUTHORITIES>>

\* CitationCategory.sort_order: list(CitationCategory).index(self)
sort_order(category) ==
  (CHOOSE i \in DOMAIN CitationCategory : CitationCategory[i] = category) - 1

\* parent_key = None
None == <<"None">>

\* Citation.generate_sort_key, as a function of display_name.
strip_article(name) ==
  IF startswith(name, <<"A", " ">>) THEN SubSeq(name, 3, Len(name))
  ELSE IF startswith(name, <<"A", "n", " ">>) THEN SubSeq(name, 4, Len(name))
  ELSE IF startswith(name, <<"T", "h", "e", " ">>) THEN SubSeq(name, 5, Len(name))
  ELSE name

generate_sort_key(display_name) ==
  LET name == strip_article(strip(lstrip(strip(display_name), {"*"})))
  IN strip(remove_chars(Range(CHARSET) \ (Range(LOWER) \cup DIGIT \cup {" "}),
                        lower(name)))

\* The insertion of page p at its place in an ascending list: what
\* pages.append(p) followed by pages.sort() leaves.
RECURSIVE insert_sorted(_, _)
insert_sorted(pages, p) ==
  IF pages = <<>> THEN <<p>>
  ELSE IF p < pages[1] THEN <<p>> \o pages
  ELSE <<pages[1]>> \o insert_sorted(Tail(pages), p)

\* list.sort() of a list of integers.
RECURSIVE sort_ints(_)
sort_ints(pages) ==
  IF pages = <<>> THEN <<>>
  ELSE insert_sorted(sort_ints(SubSeq(pages, 1, Len(pages) - 1)), pages[Len(pages)])

\* The loop of Citation.merge_pages: the pages of other not yet in self are
\* appended, in other's order.
RECURSIVE append_missing(_, _)
append_missing(pages, other) ==
  IF other = <<>> THEN pages
  ELSE append_missing(IF other[1] \in Range(pages) THEN pages
                      ELSE Append(pages, other[1]), Tail(other))

\* self.pages = other.pages in place of the merge.
merge_pages_overwriting(self_pages, other_pages) == other_pages

\* Citation.merge_pages: self.pages after self.merge_pages(other).
merge_pages(self_pages, other_pages) ==
  sort_ints(append_missing(self_pages, other_pages))

(***************************************************************************)
(* app/detection/patterns.py: the names and categories of the registry.   *)
(* prefix is the part of the name that str.startswith tests.              *)
(***************************************************************************)

PATTERN_REGISTRY ==
  << [name |-> "case_parallel",      prefix |-> "case_",    category |-> CASES],
     [name |-> "case_unpublished",   prefix |-> "case_",    category |-> CASES],
     [name |-> "case_full",          prefix |-> "case_",    category |-> CASES],
     [name |-> "statute_usc",        prefix |-> "statute_", category |-> STATUTES],
     [name |-> "statute_mcl",        prefix |-> "statute_", category |-> STATUTES],
     [name |-> "statute_pub_law",    prefix |-> "statute_", category |-> STATUTES],
     [name |-> "const_us",           prefix |-> "const_",   category |-> CONSTITUTIONAL],
     [name |-> "const_mich",         prefix |-> "const_",   category |-> CONSTITUTIONAL],
     [name |-> "rule_federal",       prefix |-> "rule_",    category |-> RULES],
     [name |-> "rule_michigan",      prefix |-> "rule_",    category |-> RULES],
     [name |-> "rule_local",         prefix |-> "rule_",    category |-> RULES],
     [name |-> "other_restatement",  prefix |-> "other_",   category |-> OTHER_AUTHORITIES],
     [name |-> "other_law_review",   prefix |-> "other_",   category |-> OTHER_AUTHORITIES],
     [name |-> "other_treatise",     prefix |-> "other_",   category |-> OTHER_AUTHORITIES],
     [name |-> "short_id",           prefix |-> "short_",   category |-> CASES],
     [name |-> "short_supra",        prefix |-> "short_",   category |-> CASES],
     [name |-> "short_case_pincite", prefix |-> "short_",   category |-> CASES] >>

\* pattern_name.startswith(prefix)
name_startswith(pattern_name, prefix) ==
  \E r \in Range(PATTERN_REGISTRY) : r.name = pattern_name /\ r.prefix = prefix

(***************************************************************************)
(* app/detection/detector.py: the Key Normalizer and the display name.     *)
(***************************************************************************)

\* r"(\d+)\s+(\S+(?:\.\s*\S+)*)\s+(\d+)"
VOL_REP_PAGE_RE ==
  << Plus(Set(DIGIT)),
     Plus(Set(SPACE)),
     Cat(<<Plus(Set(NONSPACE)),
           Star(Cat(<<Lit("."), Star(Set(SPACE)), Plus(Set(NONSPACE))>>))>>),
     Plus(Set(SPACE)),
     Plus(Set(DIGIT)) >>

\* CitationDetector._normalize
normalize(text, pattern_name) ==
  LET norm == sub_runs(SPACE, <<" ">>, lower(strip(text)))
      vol_match == re_search(VOL_REP_PAGE_RE, norm)
  IN IF name_startswith(pattern_name, "case_") /\ vol_match # <<>>
     THEN group(norm, vol_match, 1) \o <<"_">>
          \o remove_chars(SPACE \cup {"."}, group(norm, vol_match, 3)) \o <<"_">>
          \o group(norm, vol_match, 5)
     ELSE IF name_startswith(pattern_name, "statute_")
     THEN sub_runs(SPACE \cup {"."}, <<"_">>, sub_runs({"§"}, <<"s">>, norm))
     ELSE sub_runs(SPACE \cup {"."}, <<"_">>, norm)

\* CitationDetector._make_display_name
make_display_name(text, category) == sub_runs(SPACE, <<" ">>, strip(text))

(***************************************************************************)
(* list.sort and sorted: a stable sort.  Lt(a, b) says that the key of a   *)
(* is less than the key of b; elements of equal key keep their order.      *)
(***************************************************************************)

stable_sort(seq, Lt(_, _)) ==
  LET before(i, j) == Lt(seq[i], seq[j]) \/ (~Lt(seq[j], seq[i]) /\ i < j)
  IN [k \in 1..Len(seq) |->
        seq[CHOOSE i \in 1..Len(seq) :
              Cardinality({j \in 1..Len(seq) : before(j, i)}) = k - 1]]

\* The concatenation of the sequences of a sequence.
RECURSIVE concat_all(_)
concat_all(seqs) ==
  IF seqs = <<>> THEN <<>> ELSE seqs[1] \o concat_all(Tail(seqs))

\* min(c.pages) if c.pages else 0
min_page(c) ==
  IF c.pages = <<>> THEN 0
  ELSE CHOOSE p \in Range(c.pages) : \A q \in Range(c.pages) : p <= q

(***************************************************************************)
(* app/detection/short_form.py                                             *)
(***************************************************************************)

\* r"^Id\.|^Ibid\.", re.IGNORECASE
ID_RE ==
  << Alt(<< Cat(<<WordI(<<"I","d">>), Lit(".")>>),
            Cat(<<WordI(<<"I","b","i","d">>), Lit(".")>>) >>) >>

\* r"^([A-Z][a-z]+(?:\s+[A-Z][a-z]+)?)"
SUPRA_NAME_RE ==
  << Cat(<<Set(Range(UPPER)), Plus(Set(Range(LOWER))),
           Opt(Cat(<<SP1, Set(Range(UPPER)), Plus(Set(Range(LOWER)))>>))>>) >>

\* r"(\d+)\s+(\S+(?:\.\S+)*)"
VOL_REP_RE ==
  << Plus(Set(DIGIT)),
     SP1,
     Cat(<<Plus(Set(NONSPACE)), Star(Cat(<<Lit("."), Plus(Set(NONSPACE))>>))>>) >>

is_id_cite(text) == re_match(ID_RE, text) # <<>>

is_supra_cite(text) == contains(lower(text), <<"s", "u", "p", "r", "a">>)

\* The link that leaves the category of the short form as it is.
linked_keeping_category(short_cite, fc) ==
  [short_cite EXCEPT !.parent_key = fc.normalized_key]

\* A short form linked to the full citation fc.
linked(short_cite, fc) ==
  [short_cite EXCEPT !.parent_key = fc.normalized_key, !.category = fc.category]

\* The first element of seq that satisfies Test, as <<element>>; <<>> if none.
first_such(seq, Test(_)) ==
  LET at == {i \in 1..Len(seq) : Test(seq[i])}
  IN IF at = {} THEN <<>> ELSE <<seq[CHOOSE i \in at : \A j \in at : i <= j]>>

\* fc.display_name.split(" v.")[0].split(" v ")[0].strip().lower()
first_party_of(display_name) ==
  lower(strip(split_first(split_first(display_name, <<" ", "v", ".">>),
                          <<" ", "v", " ">>)))

\* re.sub(r"[\s.]", "", match.group(2).lower()) of a match of VOL_REP_RE
reporter_of(text, match) ==
  remove_chars(SPACE \cup {"."}, lower(group(text, match, 3)))

(***************************************************************************)
(* Sample page texts, and for each the matches that the compiled patterns  *)
(* of PATTERN_REGISTRY find in it: pattern.finditer(text), as (start, end) *)
(* offsets, in registry order and then in order of start.                  *)
(***************************************************************************)

\* 'Ab v. Cd, 1 F. 2'
TEXT_AB_CD ==
  <<"A", "b", " ", "v", ".", " ", "C", "d", ",", " ", "1", " ", "F", ".", " ", "2">>
HITS_AB_CD ==
  << [pattern_name |-> "case_full", start |-> 0, end |-> 16] >>

\* 'Alr v Cd, 1 F. 2'
TEXT_ALR_CD ==
  <<"A", "l", "r", " ", "v", " ", "C", "d", ",", " ", "1", " ", "F", ".", " ", "2">>
HITS_ALR_CD ==
  << [pattern_name |-> "case_full", start |-> 0, end |-> 16] >>

\* 'Ab\nv. Cd, 5 F. 6'
TEXT_AB_NL ==
  <<"A", "b", "\n", "v", ".", " ", "C", "d", ",", " ", "5", " ", "F", ".", " ", "6">>
HITS_AB_NL ==
  << [pattern_name |-> "case_full", start |-> 0, end |-> 16] >>

\* '1 USC § 2'
TEXT_USC ==
  <<"1", " ", "U", "S", "C", " ", "§", " ", "2">>
HITS_USC ==
  << [pattern_name |-> "statute_usc", start |-> 0, end |-> 9] >>

\* '1 U.S.C. § 2'
TEXT_USC_DOTS ==
  <<"1", " ", "U", ".", "S", ".", "C", ".", " ", "§", " ", "2">>
HITS_USC_DOTS ==
  << [pattern_name |-> "statute_usc", start |-> 0, end |-> 12] >>

\* 'Id. at 5'
TEXT_ID_AT ==
  <<"I", "d", ".", " ", "a", "t", " ", "5">>
HITS_ID_AT ==
  << [pattern_name |-> "short_id", start |-> 0, end |-> 8] >>

\* 'Ab, supra'
TEXT_SUPRA ==
  <<"A", "b", ",", " ", "s", "u", "p", "r", "a">>
HITS_SUPRA ==
  << [pattern_name |-> "short_supra", start |-> 0, end |-> 9] >>

\* '1 F. at 9'
TEXT_PINCITE ==
  <<"1", " ", "F", ".", " ", "a", "t", " ", "9">>
HITS_PINCITE ==
  << [pattern_name |-> "short_case_pincite", start |-> 0, end |-> 9] >>

\* 'Ab v Cd, 1 Mich 2; 3 Mich 4'
TEXT_PARALLEL ==
  <<"A", "b", " ", "v", " ", "C", "d", ",", " ", "1", " ", "M", "i", "c", "h", " ", "2", ";", " ", "3", " ", "M", "i", "c", "h", " ", "4">>
HITS_PARALLEL ==
  << [pattern_name |-> "case_parallel", start |-> 0, end |-> 27],
       [pattern_name |-> "case_full", start |-> 0, end |-> 17] >>

\* 'Ab v. Cd, 1 F. 2, 34 F. at 56 USC §7'
TEXT_CHAIN ==
  <<"A", "b", " ", "v", ".", " ", "C", "d", ",", " ", "1", " ", "F", ".", " ", "2", ",", " ", "3", "4", " ", "F", ".", " ", "a", "t", " ", "5", "6", " ", "U", "S", "C", " ", "§", "7">>
HITS_CHAIN ==
  << [pattern_name |-> "case_full", start |-> 0, end |-> 20],
       [pattern_name |-> "statute_usc", start |-> 27, end |-> 36],
       [pattern_name |-> "short_case_pincite", start |-> 18, end |-> 29] >>

\* 'See Ef v. Gh, 7 F. 8; Id.'
TEXT_SEE_ID ==
  <<"S", "e", "e", " ", "E", "f", " ", "v", ".", " ", "G", "h", ",", " ", "7", " ", "F", ".", " ", "8", ";", " ", "I", "d", ".">>
HITS_SEE_ID ==
  << [pattern_name |-> "case_full", start |-> 0, end |-> 20],
       [pattern_name |-> "short_id", start |-> 22, end |-> 25] >>

\* 'no cite'
TEXT_NO_CITE ==
  <<"n", "o", " ", "c", "i", "t", "e">>
HITS_NO_CITE ==
  << >>

SAMPLE_PAGES ==
  << [text |-> TEXT_AB_CD, hits |-> HITS_AB_CD],
     [text |-> TEXT_ALR_CD, hits |-> HITS_ALR_CD],
     [text |-> TEXT_AB_NL, hits |-> HITS_AB_NL],
     [text |-> TEXT_USC, hits |-> HITS_USC],
     [text |-> TEXT_USC_DOTS, hits |-> HITS_USC_DOTS],
     [text |-> TEXT_ID_AT, hits |-> HITS_ID_AT],
     [text |-> TEXT_SUPRA, hits |-> HITS_SUPRA],
     [text |-> TEXT_PINCITE, hits |-> HITS_PINCITE],
     [text |-> TEXT_PARALLEL, hits |-> HITS_PARALLEL],
     [text |-> TEXT_CHAIN, hits |-> HITS_CHAIN],
     [text |-> TEXT_SEE_ID, hits |-> HITS_SEE_ID],
     [text |-> TEXT_NO_CITE, hits |-> HITS_NO_CITE] >>

\* [(m.start(), m.end()) for m in pattern.finditer(text)]
finditer(pattern_name, text) ==
  LET sample == CHOOSE e \in Range(SAMPLE_PAGES) : e.text = text
  IN SelectSeq(sample.hits, LAMBDA h : h.pattern_name = pattern_name)

\* m.group(0).strip()
match_text(text, hit) == strip(SubSeq(text, hit.start + 1, hit.end))

\* The texts that the patterns match in the sample pages.
MATCH_TEXTS ==
  UNION {{match_text(e.text, e.hits[h]) : h \in DOMAIN e.hits} : e \in Range(SAMPLE_PAGES)}

\* Two more texts that case_full matches, each in full, for reclassify:
\* 'In re Ab, 1 F. 2' and 'Lj v. Cd, 1 F. 2'.
TEXT_IN_RE ==
  <<"I", "n", " ", "r", "e", " ", "A", "b", ",", " ", "1", " ", "F", ".", " ", "2">>
TEXT_LJ ==
  <<"L", "j", " ", "v", ".", " ", "C", "d", ",", " ", "1", " ", "F", ".", " ", "2">>

\* The texts of the citations: those of the sample pages and these two.
CITED_TEXTS == MATCH_TEXTS \cup {TEXT_IN_RE, TEXT_LJ}

\* _normalize, computed once for each of these texts and each pattern name.
NORMALIZED ==
  [text \in CITED_TEXTS, name \in {r.name : r \in Range(PATTERN_REGISTRY)} |->
     normalize(text, name)]

\* _make_display_name and generate_sort_key of the display name, computed once
\* for each of these texts.
DISPLAYED ==
  [text \in CITED_TEXTS |->
     [display_name |-> make_display_name(text, CASES),
      sort_key     |-> generate_sort_key(make_display_name(text, CASES))]]

\* The display names of the citations of the sample pages.
DISPLAY_NAMES == {DISPLAYED[text].display_name : text \in MATCH_TEXTS}

\* generate_sort_key, computed once for each of these display names.
SORT_KEYS == [display_name \in DISPLAY_NAMES |-> generate_sort_key(display_name)]

(***************************************************************************)
(* app/detection/short_form.py: the resolution of the short forms          *)
(***************************************************************************)

\* match.group(1) and re.sub(r"[\s.]", "", match.group(2).lower()) of a
\* match of VOL_REP_RE, as <<record>>; <<>> if there is no match.
vol_rep(text, match) ==
  IF match = <<>> THEN <<>>
  ELSE << [volume |-> group(text, match, 1), reporter |-> reporter_of(text, match)] >>

\* What resolve_short_forms computes from the text of a citation alone,
\* computed once for each text that a pattern matches in the sample pages:
\*   id         _is_id_cite(text.strip())
\*   supra      _is_supra_cite(text.strip())
\*   name       _resolve_supra's name: group 1 of re.match of SUPRA_NAME_RE on
\*              the stripped text, lower-cased, as <<name>>; <<>> if no match
\*   short_vol  _resolve_short_pincite's volume and reporter of the short
\*              form: re.match of VOL_REP_RE on the stripped text
\*   full_vol   its volume and reporter of a full citation: re.search of
\*              VOL_REP_RE in the text
SHORT_FORM_TESTS ==
  [text \in MATCH_TEXTS |->
     [id        |-> is_id_cite(strip(text)),
      supra     |-> is_supra_cite(strip(text)),
      name      |-> LET match == re_match(SUPRA_NAME_RE, strip(text))
                    IN IF match = <<>> THEN <<>>
                       ELSE <<lower(group(strip(text), match, 1))>>,
      short_vol |-> vol_rep(strip(text), re_match(VOL_REP_RE, strip(text))),
      full_vol  |-> vol_rep(text, re_search(VOL_REP_RE, text))]]

\* fc.display_name.split(" v.")[0].split(" v ")[0].strip().lower(), computed
\* once for each display name.
FIRST_PARTY == [display_name \in DISPLAY_NAMES |-> first_party_of(display_name)]

first_party(fc) == FIRST_PARTY[fc.display_name]

\* _resolve_id keeping the first citation of a page not after sc_page
\* instead of the last.
resolve_id_first(short_cite, ordered_fulls, sc_page) ==
  LET ok == {i \in 1..Len(ordered_fulls) : min_page(ordered_fulls[i]) <= sc_page}
  IN IF ok = {} THEN short_cite
     ELSE linked(short_cite, ordered_fulls[CHOOSE i \in ok : \A j \in ok : i <= j])

\* _resolve_id: the loop keeps the last citation before the first one whose
\* page is greater than sc_page.
resolve_id(short_cite, ordered_fulls, sc_page) ==
  LET later == {i \in 1..Len(ordered_fulls) : min_page(ordered_fulls[i]) > sc_page}
      n == IF later = {} THEN Len(ordered_fulls)
           ELSE (CHOOSE i \in later : \A j \in later : i <= j) - 1
  IN IF n = 0 THEN short_cite ELSE linked(short_cite, ordered_fulls[n])

\* _resolve_supra without the test on the party name: the first full
\* citation is taken.
resolve_supra_any_name(short_cite, ordered_fulls, text) ==
  IF SHORT_FORM_TESTS[text].name = <<>> \/ ordered_fulls = <<>> THEN short_cite
  ELSE linked(short_cite, ordered_fulls[1])

\* _resolve_supra; text is the text of the short form.
resolve_supra(short_cite, ordered_fulls, text) ==
  LET name == SHORT_FORM_TESTS[text].name
      hit == first_such(ordered_fulls,
                        LAMBDA fc : \/ contains(first_party(fc), name[1])
                                    \/ startswith(first_party(fc), name[1]))
  IN IF name = <<>> \/ hit = <<>> THEN short_cite ELSE linked(short_cite, hit[1])

\* _resolve_short_pincite comparing the volumes alone.
resolve_short_pincite_by_volume(short_cite, full_cites, text) ==
  LET vol == SHORT_FORM_TESTS[text].short_vol
      same(fc) == /\ SHORT_FORM_TESTS[fc.full_text].full_vol # <<>>
                  /\ SHORT_FORM_TESTS[fc.full_text].full_vol[1].volume = vol[1].volume
      hit == first_such(full_cites, same)
  IN IF vol = <<>> \/ hit = <<>> THEN short_cite ELSE linked(short_cite, hit[1])

\* _resolve_short_pincite; text is the text of the short form.
resolve_short_pincite(short_cite, full_cites, text) ==
  LET vol == SHORT_FORM_TESTS[text].short_vol
      same(fc) == SHORT_FORM_TESTS[fc.full_text].full_vol = vol
      hit == first_such(full_cites, same)
  IN IF vol = <<>> \/ hit = <<>> THEN short_cite ELSE linked(short_cite, hit[1])

\* The body of resolve_short_forms's loop: the short form sc after its turn.
resolve_one(sc, full_cites, ordered_fulls) ==
  IF SHORT_FORM_TESTS[sc.full_text].id
  THEN resolve_id(sc, ordered_fulls, min_page(sc))
  ELSE IF SHORT_FORM_TESTS[sc.full_text].supra
  THEN resolve_supra(sc, ordered_fulls, sc.full_text)
  ELSE resolve_short_pincite(sc, full_cites, sc.full_text)

\* resolve_short_forms: short_cites after the call (the full citations are
\* only read).
resolve_short_forms(full_cites, short_cites) ==
  IF full_cites = <<>> \/ short_cites = <<>> THEN short_cites
  ELSE LET ordered_fulls ==
             stable_sort(full_cites, LAMBDA a, b : min_page(a) < min_page(b))
       IN [i \in 1..Len(short_cites) |->
             resolve_one(short_cites[i], full_cites, ordered_fulls)]

(***************************************************************************)
(* app/classifier/rule_classifier.py                                       *)
(***************************************************************************)

\* TREATISE_SIGNALS joined by "|", compiled with re.IGNORECASE.
TREATISE_RE ==
  << Alt(<< Cat(<<WordI(<<"W","r","i","g","h","t">>), SP0, Set({"&", ","}), SP0,
                  WordI(<<"M","i","l","l","e","r">>)>>),
            Cat(<<WordI(<<"M","o","o","r","e">>), Set({"'"}), LitI("s"), SP1,
                  WordI(<<"F","e","d","e","r","a","l">>), SP1,
                  WordI(<<"P","r","a","c","t","i","c","e">>)>>),
            Cat(<<WordI(<<"P","r","o","s","s","e","r">>), SP0, Set({"&", ","}), SP0,
                  WordI(<<"K","e","e","t","o","n">>)>>),
            WordI(<<"W","i","g","m","o","r","e">>),
            Cat(<<WordI(<<"C","o","r","b","i","n">>), SP1, WordI(<<"o","n">>), SP1,
                  WordI(<<"C","o","n","t","r","a","c","t","s">>)>>),
            Cat(<<WordI(<<"W","i","l","l","i","s","t","o","n">>), SP1, WordI(<<"o","n">>),
                  SP1, WordI(<<"C","o","n","t","r","a","c","t","s">>)>>),
            Cat(<<WordI(<<"A","m">>), Opt(Lit(".")), SP0, WordI(<<"J","u","r">>),
                  Opt(Lit(".")), SP0, Lit("2"), LitI("d")>>),
            Cat(<<LitI("C"), Opt(Lit(".")), LitI("J"), Opt(Lit(".")), LitI("S"),
                  Opt(Lit("."))>>),
            Cat(<<LitI("A"), Opt(Lit(".")), LitI("L"), Opt(Lit(".")), LitI("R"),
                  Opt(Lit("."))>>) >>) >>

\* r"(?:L\.?\s*Rev|Law\s+Review|L\.?\s*J|Law\s+Journal)", re.IGNORECASE
LAW_REVIEW_RE ==
  << Alt(<< Cat(<<LitI("L"), Opt(Lit(".")), SP0, WordI(<<"R","e","v">>)>>),
            Cat(<<WordI(<<"L","a","w">>), SP1, WordI(<<"R","e","v","i","e","w">>)>>),
            Cat(<<LitI("L"), Opt(Lit(".")), SP0, LitI("J")>>),
            Cat(<<WordI(<<"L","a","w">>), SP1,
                  WordI(<<"J","o","u","r","n","a","l">>)>>) >>) >>

\* r"(?:In\s+re|Ex\s+parte|Matter\s+of)"
NO_PARTY_PREFIX_RE ==
  << Alt(<< Cat(<<Word(<<"I","n">>), SP1, Word(<<"r","e">>)>>),
            Cat(<<Word(<<"E","x">>), SP1, Word(<<"p","a","r","t","e">>)>>),
            Cat(<<Word(<<"M","a","t","t","e","r">>), SP1, Word(<<"o","f">>)>>) >>) >>

\* A confidence is held in hundredths: 100 is 1.0, 90 is 0.9, 60 is 0.6.
CONF_FULL == 100
CONF_RECLASSIFIED == 90
CONF_AMBIGUOUS == 60

\* The tests reclassify makes on a text, computed once for each text of a
\* citation.
TEXT_TESTS ==
  [text \in CITED_TEXTS |->
     [treatise   |-> re_search(TREATISE_RE, text) # <<>>,
      law_review |-> re_search(LAW_REVIEW_RE, text) # <<>>,
      v_dot      |-> contains(text, <<" ", "v", ".">>),
      v_space    |-> contains(text, <<" ", "v", " ">>),
      no_party   |-> re_match(NO_PARTY_PREFIX_RE, text) # <<>>]]

\* The body of the loop with the confidence of a suspicious case lowered by
\* 0.4 from what it is.
reclassify_one_lowering(cite) ==
  LET text == cite.full_text
  IN IF cite.is_short_form THEN cite
     ELSE IF cite.category = CASES /\ TEXT_TESTS[text].treatise
     THEN [cite EXCEPT !.category = OTHER_AUTHORITIES, !.confidence = CONF_RECLASSIFIED]
     ELSE IF cite.category = CASES /\ TEXT_TESTS[text].law_review
     THEN [cite EXCEPT !.category = OTHER_AUTHORITIES, !.confidence = CONF_RECLASSIFIED]
     ELSE IF /\ cite.category = CASES
             /\ ~TEXT_TESTS[text].v_dot
             /\ ~TEXT_TESTS[text].v_space
             /\ ~TEXT_TESTS[text].no_party
     THEN [cite EXCEPT !.confidence = IF @ >= 40 THEN @ - 40 ELSE 0]
     ELSE cite

\* The body of the loop without the test for In re, Ex parte and Matter of.
reclassify_one_without_prefix_test(cite) ==
  LET text == cite.full_text
  IN IF cite.is_short_form THEN cite
     ELSE IF cite.category = CASES /\ TEXT_TESTS[text].treatise
     THEN [cite EXCEPT !.category = OTHER_AUTHORITIES, !.confidence = CONF_RECLASSIFIED]
     ELSE IF cite.category = CASES /\ TEXT_TESTS[text].law_review
     THEN [cite EXCEPT !.category = OTHER_AUTHORITIES, !.confidence = CONF_RECLASSIFIED]
     ELSE IF /\ cite.category = CASES
             /\ ~TEXT_TESTS[text].v_dot
             /\ ~TEXT_TESTS[text].v_space
     THEN [cite EXCEPT !.confidence = CONF_AMBIGUOUS]
     ELSE cite

\* The body of reclassify's loop: the citation after its turn.
reclassify_one(cite) ==
  LET text == cite.full_text
  IN IF cite.is_short_form THEN cite
     ELSE IF cite.category = CASES /\ TEXT_TESTS[text].treatise
     THEN [cite EXCEPT !.category = OTHER_AUTHORITIES, !.confidence = CONF_RECLASSIFIED]
     ELSE IF cite.category = CASES /\ TEXT_TESTS[text].law_review
     THEN [cite EXCEPT !.category = OTHER_AUTHORITIES, !.confidence = CONF_RECLASSIFIED]
     ELSE IF /\ cite.category = CASES
             /\ ~TEXT_TESTS[text].v_dot
             /\ ~TEXT_TESTS[text].v_space
             /\ ~TEXT_TESTS[text].no_party
     THEN [cite EXCEPT !.confidence = CONF_AMBIGUOUS]
     ELSE cite

\* reclassify: the list it returns, which is the list it was given, modified
\* in place.
reclassify(citations) == [i \in 1..Len(citations) |-> reclassify_one(citations[i])]

\* The default of threshold in get_ambiguous, in hundredths.
AMBIGUOUS_THRESHOLD == 80

\* The places in citations of the entries get_ambiguous returns: those below
\* the threshold that are not short forms, in the order of the list.
ambiguous_indices(citations) ==
  SelectSeq([i \in 1..Len(citations) |-> i],
            LAMBDA i : citations[i].confidence < AMBIGUOUS_THRESHOLD
                       /\ ~citations[i].is_short_form)

\* get_ambiguous(citations)
get_ambiguous(citations) ==
  [k \in 1..Len(ambiguous_indices(citations)) |->
     citations[ambiguous_indices(citations)[k]]]

(***************************************************************************)
(* app/classifier/ai_classifier.py                                         *)
(*                                                                         *)
(* The provider's answer is held as what the calls on it make of it:       *)
(*   kind "raises"     _call_provider raises                               *)
(*        "empty"      it returns None or ""                               *)
(*        "bad_fence"  the text starts with ``` and has no newline:        *)
(*                     text.split("\n", 1)[1] raises IndexError            *)
(*        "not_json"   json.loads raises JSONDecodeError                   *)
(*        "number"     json.loads returns a number                         *)
(*        "object"     json.loads returns an object with a key             *)
(*        "array"      json.loads returns the array `items`                *)
(* and an item of the array as                                             *)
(*   kind      "object" or "number"                                        *)
(*   index     type "int" (with its value), "str" or "missing"             *)
(*   category  type "str" (with its value), "null" or "missing"            *)
(***************************************************************************)

\* citations[idx].confidence = 0.85, in hundredths.
CONF_AI == 85

\* _CATEGORY_MAP
CATEGORY_MAP ==
  <<[label |-> <<"c", "a", "s", "e", "s">>,
      category |-> CASES],
     [label |-> <<"s", "t", "a", "t", "u", "t", "e", "s">>,
      category |-> STATUTES],
     [label |-> <<"c", "o", "n", "s", "t", "i", "t", "u", "t", "i", "o", "n", "a", "l">>,
      category |-> CONSTITUTIONAL],
     [label |-> <<"c", "o", "n", "s", "t", "i", "t", "u", "t", "i", "o", "n", "a", "l", " ", "p", "r", "o", "v", "i", "s", "i", "o", "n", "s">>,
      category |-> CONSTITUTIONAL],
     [label |-> <<"r", "u", "l", "e", "s">>,
      category |-> RULES],
     [label |-> <<"o", "t", "h", "e", "r">>,
      category |-> OTHER_AUTHORITIES],
     [label |-> <<"o", "t", "h", "e", "r", " ", "a", "u", "t", "h", "o", "r", "i", "t", "i", "e", "s">>,
      category |-> OTHER_AUTHORITIES]>>

\* cat_name in _CATEGORY_MAP
in_category_map(cat_name) ==
  \E k \in DOMAIN CATEGORY_MAP : CATEGORY_MAP[k].label = cat_name

\* A lookup that falls back on a category: _CATEGORY_MAP.get(cat_name, OTHER).
category_or_other(cat_name) ==
  IF in_category_map(cat_name)
  THEN CATEGORY_MAP[CHOOSE k \in DOMAIN CATEGORY_MAP :
                      CATEGORY_MAP[k].label = cat_name].category
  ELSE OTHER_AUTHORITIES

\* _CATEGORY_MAP[cat_name]
category_of(cat_name) ==
  CATEGORY_MAP[CHOOSE k \in DOMAIN CATEGORY_MAP : CATEGORY_MAP[k].label = cat_name].category

\* item.get("index", -1)
item_index(item) == IF item.index.type = "missing" THEN -1 ELSE item.index.value

\* item.get("category", "").lower()
item_cat_name(item) ==
  IF item.category.type = "missing" THEN <<>> ELSE lower(item.category.value)

\* The loop of _apply_classifications with every label taken for a category.
RECURSIVE apply_from_any_label(_, _, _)
apply_from_any_label(citations, items, k) ==
  IF k > Len(items) THEN citations
  ELSE LET item == items[k]
       IN IF item.kind # "object" THEN citations
          ELSE IF item.category.type = "null" THEN citations
          ELSE IF item.index.type = "str" THEN citations
          ELSE IF 0 <= item_index(item) /\ item_index(item) < Len(citations)
          THEN apply_from_any_label(
                 [citations EXCEPT
                    ![item_index(item) + 1].category = category_or_other(item_cat_name(item)),
                    ![item_index(item) + 1].confidence = CONF_AI],
                 items, k + 1)
          ELSE apply_from_any_label(citations, items, k + 1)

\* The loop of _apply_classifications from item k on.  An item that is not an
\* object and a category that is null raise AttributeError (item.get,
\* None.lower), which classify_ambiguous catches; an index that is a string
\* raises TypeError (0 <= idx), which _apply_classifications catches: the
\* loop ends there and what it has written stays.
RECURSIVE apply_from(_, _, _)
apply_from(citations, items, k) ==
  IF k > Len(items) THEN citations
  ELSE LET item == items[k]
       IN IF item.kind # "object" THEN citations
          ELSE IF item.category.type = "null" THEN citations
          ELSE IF item.index.type = "str" THEN citations
          ELSE IF /\ 0 <= item_index(item)
                  /\ item_index(item) < Len(citations)
                  /\ in_category_map(item_cat_name(item))
          THEN apply_from(
                 [citations EXCEPT
                    ![item_index(item) + 1].category = category_of(item_cat_name(item)),
                    ![item_index(item) + 1].confidence = CONF_AI],
                 items, k + 1)
          ELSE apply_from(citations, items, k + 1)

\* _apply_classifications: citations after the call.  What is not an array
\* raises before any citation is written: IndexError, JSONDecodeError, or,
\* on "for item in results" and item.get, TypeError and AttributeError.
apply_classifications(citations, response) ==
  IF response.kind = "array" THEN apply_from(citations, response.items, 1)
  ELSE citations

\* classify_ambiguous returning an empty list when the provider fails.
classify_ambiguous_or_nothing(citations, has_api_key, response) ==
  IF citations = <<>> THEN citations
  ELSE IF ~has_api_key THEN citations
  ELSE IF response.kind = "raises" THEN <<>>
  ELSE IF response.kind = "empty" THEN citations
  ELSE apply_classifications(citations, response)

\* classify_ambiguous: the list it returns.  has_api_key is the truth value
\* of settings.get_api_key(model.provider.value).
classify_ambiguous(citations, has_api_key, response) ==
  IF citations = <<>> THEN citations
  ELSE IF ~has_api_key THEN citations
  ELSE IF response.kind \in {"raises", "empty"} THEN citations
  ELSE apply_classifications(citations, response)

\* The labels of an answer: two that _CATEGORY_MAP knows once lower-cased, and
\* one that it does not know.
LABELS ==
  {<<"C", "a", "s", "e", "s">>,
   <<"o", "t", "h", "e", "r", " ", "a", "u", "t", "h", "o", "r", "i", "t", "i", "e", "s">>,
   <<"T", "r", "e", "a", "t", "i", "s", "e">>}

\* The items of an answer about a list of at most n citations.
Items(n) ==
  {[kind |-> "number", index |-> [type |-> "missing", value |-> 0],
    category |-> [type |-> "missing", value |-> <<>>]]}
  \cup
  {[kind |-> "object", index |-> i, category |-> c] :
     i \in {[type |-> "int", value |-> v] : v \in -1..n}
           \cup {[type |-> "str", value |-> 0], [type |-> "missing", value |-> 0]},
     c \in {[type |-> "str", value |-> l] : l \in LABELS}
           \cup {[type |-> "null", value |-> <<>>], [type |-> "missing", value |-> <<>>]}}

\* The answers with an array of at most m items, about at most n citations.
Responses(n, m) ==
  {[kind |-> k, items |-> <<>>] :
     k \in {"raises", "empty", "bad_fence", "not_json", "number", "object"}}
  \cup
  {[kind |-> "array", items |-> a] : a \in UNION {[1..j -> Items(n)] : j \in 0..m}}

\* The worker's citations after classify_ambiguous(ambiguous): ambiguous holds
\* the Citation objects of the list, so what is written to them is written to
\* the entries of the list.
classified_in_place(citations, classified) ==
  [i \in 1..Len(citations) |->
     IF \E k \in 1..Len(classified) : ambiguous_indices(citations)[k] = i
     THEN classified[CHOOSE k \in 1..Len(classified) :
                       ambiguous_indices(citations)[k] = i]
     ELSE citations[i]]

(***************************************************************************)
(* app/detection/detector.py                                               *)
(***************************************************************************)

\* The matches of every pattern in a page text, in registry order, with the
\* offsets in the page: the loops of _scan over PATTERN_REGISTRY and over
\* pattern.finditer(text), computed once for each sample page.
PAGE_MATCHES ==
  [text \in {e.text : e \in Range(SAMPLE_PAGES)} |->
     concat_all([r \in 1..Len(PATTERN_REGISTRY) |->
       LET found == finditer(PATTERN_REGISTRY[r].name, text)
       IN [h \in 1..Len(found) |->
             [text         |-> match_text(text, found[h]),
              start        |-> found[h].start,
              end          |-> found[h].end,
              pattern_name |-> PATTERN_REGISTRY[r].name,
              category     |-> PATTERN_REGISTRY[r].category]]])]

\* CitationDetector._scan, one page: its matches, at their offsets in the
\* document.
scan_page(page_data, char_offset) ==
  [k \in 1..Len(PAGE_MATCHES[page_data.text]) |->
     [text         |-> PAGE_MATCHES[page_data.text][k].text,
      start        |-> char_offset + PAGE_MATCHES[page_data.text][k].start,
      end          |-> char_offset + PAGE_MATCHES[page_data.text][k].end,
      page         |-> page_data.page,
      pattern_name |-> PAGE_MATCHES[page_data.text][k].pattern_name,
      category     |-> PAGE_MATCHES[page_data.text][k].category]]

\* _scan without "char_offset += len(text)": every page is scanned at the
\* offset of the first.
RECURSIVE scan_from_same_offset(_, _, _)
scan_from_same_offset(pages_, k, char_offset) ==
  IF k > Len(pages_) THEN <<>>
  ELSE scan_page(pages_[k], char_offset)
       \o scan_from_same_offset(pages_, k + 1, char_offset)

\* CitationDetector._scan
RECURSIVE scan_from(_, _, _)
scan_from(pages_, k, char_offset) ==
  IF k > Len(pages_) THEN <<>>
  ELSE scan_page(pages_[k], char_offset)
       \o scan_from(pages_, k + 1, char_offset + Len(pages_[k].text))

scan(pages_) == scan_from(pages_, 1, 0)

\* The test with <= and >=: a match that only touches an occupied interval
\* counts as overlapping it.
overlaps_or_touches(m, occupied) ==
  \E i \in 1..Len(occupied) : occupied[i][1] <= m.end /\ occupied[i][2] >= m.start

\* The test of _remove_overlaps: m intersects an occupied interval.
overlaps(m, occupied) ==
  \E o \in Range(occupied) : m.start < o[2] /\ m.end > o[1]

\* The loop without occupied.append: no accepted interval is remembered.
RECURSIVE keep_from_forgetful(_, _, _, _)
keep_from_forgetful(matches, k, kept, occupied) ==
  IF k > Len(matches) THEN <<kept, occupied>>
  ELSE IF overlaps(matches[k], occupied)
       THEN keep_from_forgetful(matches, k + 1, kept, occupied)
       ELSE keep_from_forgetful(matches, k + 1, Append(kept, matches[k]), occupied)

\* The loop of _remove_overlaps over the sorted matches: <<kept, occupied>>.
RECURSIVE keep_from(_, _, _, _)
keep_from(matches, k, kept, occupied) ==
  IF k > Len(matches) THEN <<kept, occupied>>
  ELSE IF overlaps(matches[k], occupied) THEN keep_from(matches, k + 1, kept, occupied)
  ELSE keep_from(matches, k + 1, Append(kept, matches[k]),
                 Append(occupied, <<matches[k].start, matches[k].end>>))

\* The key without the minus sign: the shortest match first.
shorter_then_earlier(a, b) ==
  \/ a.end - a.start < b.end - b.start
  \/ a.end - a.start = b.end - b.start /\ a.start < b.start

\* key=lambda m: (-(m.end - m.start), m.start)
longer_then_earlier(a, b) ==
  \/ a.end - a.start > b.end - b.start
  \/ a.end - a.start = b.end - b.start /\ a.start < b.start

\* _remove_overlaps returning the accepted matches in the order of their
\* acceptance, without the final sort by start.
remove_overlaps_in_acceptance_order(matches) ==
  IF matches = <<>> THEN <<>>
  ELSE LET sorted == stable_sort(matches, longer_then_earlier)
       IN keep_from(sorted, 1, <<>>, <<>>)[1]

\* CitationDetector._remove_overlaps
remove_overlaps(matches) ==
  IF matches = <<>> THEN <<>>
  ELSE LET sorted == stable_sort(matches, longer_then_earlier)
           kept == keep_from(sorted, 1, <<>>, <<>>)[1]
       IN stable_sort(kept, LAMBDA a, b : a.start < b.start)

\* _to_citations with the key computed for the short forms as well.
to_citations_keying_short(matches) ==
  [k \in 1..Len(matches) |->
    LET m == matches[k]
    IN [full_text      |-> m.text,
        display_name   |-> DISPLAYED[m.text].display_name,
        category       |-> m.category,
        pages          |-> <<m.page>>,
        is_primary     |-> FALSE,
        is_short_form  |-> name_startswith(m.pattern_name, "short_"),
        parent_key     |-> None,
        normalized_key |-> NORMALIZED[m.text, m.pattern_name],
        confidence     |-> CONF_FULL,
        sort_key       |-> <<>>]]

\* _to_citations with the confidence left at -1, for "not scored yet", until
\* a classifier sets it.
to_citations_unscored(matches) ==
  [k \in 1..Len(matches) |->
    LET m == matches[k]
        is_short == name_startswith(m.pattern_name, "short_")
    IN [full_text      |-> m.text,
        display_name   |-> DISPLAYED[m.text].display_name,
        category       |-> m.category,
        pages          |-> <<m.page>>,
        is_primary     |-> FALSE,
        is_short_form  |-> is_short,
        parent_key     |-> None,
        normalized_key |-> IF is_short THEN <<>> ELSE NORMALIZED[m.text, m.pattern_name],
        confidence     |-> 0 - 1,
        sort_key       |-> <<>>]]

\* CitationDetector._to_citations
to_citations(matches) ==
  [k \in 1..Len(matches) |->
    LET m == matches[k]
        is_short == name_startswith(m.pattern_name, "short_")
    IN [full_text      |-> m.text,
        display_name   |-> DISPLAYED[m.text].display_name,
        category       |-> m.category,
        pages          |-> <<m.page>>,
        is_primary     |-> FALSE,
        is_short_form  |-> is_short,
        parent_key     |-> None,
        normalized_key |-> IF is_short THEN <<>> ELSE NORMALIZED[m.text, m.pattern_name],
        confidence     |-> CONF_FULL,
        sort_key       |-> <<>>]]

\* key in key_to_cite, for a dict held as the list of its values in insertion
\* order, each under its normalized_key.
in_dict(key, dict) == \E i \in 1..Len(dict) : dict[i].normalized_key = key

\* The place of key_to_cite[key] in that list.
dict_index(key, dict) == CHOOSE i \in 1..Len(dict) : dict[i].normalized_key = key

\* The loop body without the test "in key_to_cite": every full citation
\* becomes an entry.
merge_full_appending(dict, c) == Append(dict, c)

\* The loop body with the later citation taking the place of the entry.
merge_full_keeping_later(dict, c) ==
  IF in_dict(c.normalized_key, dict)
  THEN [dict EXCEPT ![dict_index(c.normalized_key, dict)] =
          [c EXCEPT !.pages =
             merge_pages(dict[dict_index(c.normalized_key, dict)].pages, c.pages)]]
  ELSE Append(dict, c)

\* The body of the loop over full_cites in detect (step 6).
merge_full(dict, c) ==
  IF in_dict(c.normalized_key, dict)
  THEN [dict EXCEPT ![dict_index(c.normalized_key, dict)].pages =
          merge_pages(dict[dict_index(c.normalized_key, dict)].pages, c.pages)]
  ELSE Append(dict, c)

\* The loop over sc.pages in detect (step 6): each page not yet in the list is
\* appended and the list sorted.
RECURSIVE absorb_pages(_, _)
absorb_pages(pages_, sc_pages) ==
  IF sc_pages = <<>> THEN pages_
  ELSE absorb_pages(IF sc_pages[1] \in Range(pages_) THEN pages_
                    ELSE sort_ints(Append(pages_, sc_pages[1])), Tail(sc_pages))

\* The loop body that adds no page.
merge_short_dropping(dict, sc) == dict

\* The loop body with an unresolved short form kept as an entry of its own.
merge_short_keeping_unresolved(dict, sc) ==
  IF sc.parent_key # None /\ sc.parent_key # <<>> /\ in_dict(sc.parent_key, dict)
  THEN [dict EXCEPT ![dict_index(sc.parent_key, dict)].pages =
          absorb_pages(dict[dict_index(sc.parent_key, dict)].pages, sc.pages)]
  ELSE Append(dict, sc)

\* The body of the loop over short_cites in detect (step 6).
merge_short(dict, sc) ==
  IF sc.parent_key # None /\ sc.parent_key # <<>> /\ in_dict(sc.parent_key, dict)
  THEN [dict EXCEPT ![dict_index(sc.parent_key, dict)].pages =
          absorb_pages(dict[dict_index(sc.parent_key, dict)].pages, sc.pages)]
  ELSE dict

\* key=lambda c: (c.category.sort_order, c.sort_key)
category_then_key(a, b) ==
  \/ sort_order(a.category) < sort_order(b.category)
  \/ sort_order(a.category) = sort_order(b.category) /\ str_lt(a.sort_key, b.sort_key)

\* Step 8 of detect: every entry gets its sort key, and the list is sorted.
sort_result(result_) ==
  stable_sort([k \in 1..Len(result_) |->
                 [result_[k] EXCEPT !.sort_key = SORT_KEYS[result_[k].display_name]]],
              category_then_key)

(***************************************************************************)
(* State.                                                                  *)
(*   pc                the statement the detection worker is at            *)
(*   run               the number of the current run of the worker         *)
(*   pages             the parsed document: the argument of detect         *)
(*   raw_matches, citations, full_cites, short_cites, key_to_cite, idx,    *)
(*   result            the locals of CitationDetector.detect               *)
(*   returned          the lists detect has returned, one per run, as they *)
(*                     were when it returned                               *)
(*   wk_citations      the worker's local `citations`                      *)
(*   project_citations TOAProject.citations                                *)
(*   arg, ret          the argument and the result of a function applied   *)
(*                     on its own                                          *)
(***************************************************************************)
VARIABLES pc, run, pages, raw_matches, citations, full_cites, short_cites,
          key_to_cite, idx, result, returned, wk_citations, project_citations,
          arg, ret

vars == <<pc, run, pages, raw_matches, citations, full_cites, short_cites,
          key_to_cite, idx, result, returned, wk_citations, project_citations,
          arg, ret>>

detect_locals == <<raw_matches, citations, full_cites, short_cites, key_to_cite,
                   idx, result>>

\* The longest document, in pages.
MaxPages == 2

\* The number of times the worker is run on the document.
MaxRuns == 2

\* The texts a page may hold.
PAGE_TEXTS == {e.text : e \in Range(SAMPLE_PAGES)}

\* The documents: pages numbered from 1, as parse_pdf numbers them.
Documents ==
  UNION {{[i \in 1..n |-> [page |-> i, text |-> t[i]]] : t \in [1..n -> PAGE_TEXTS]} :
           n \in 0..MaxPages}

(***************************************************************************)
(* The detection worker (gui/tabs/upload_tab.py) and, inside it, the steps *)
(* of CitationDetector.detect.  A local of detect keeps the value it was   *)
(* last given until it is assigned again; each is assigned before it is    *)
(* read.  The lists hold copies of the Citation objects: detect reads no   *)
(* object through one list after it has changed it through another.        *)
(***************************************************************************)

Init ==
  /\ pc = "parse"
  /\ run = 1
  /\ pages \in Documents
  /\ raw_matches = <<>>
  /\ citations = <<>>
  /\ full_cites = <<>>
  /\ short_cites = <<>>
  /\ key_to_cite = <<>>
  /\ idx = 1
  /\ result = <<>>
  /\ returned = <<>>
  /\ wk_citations = <<>>
  /\ project_citations = <<>>
  /\ arg = <<>>
  /\ ret = <<>>

\* _detect_worker: "if not pages": the worker reports that no text was found
\* and returns.
Worker_NoText ==
  /\ pc = "parse"
  /\ pages = <<>>
  /\ pc' = "done"
  /\ UNCHANGED <<run, pages, detect_locals, returned, wk_citations,
                 project_citations, arg, ret>>

\* _detect_worker: detector.detect(pages) is called.
Worker_CallDetect ==
  /\ pc = "parse"
  /\ pages # <<>>
  /\ pc' = "step1"
  /\ UNCHANGED <<run, pages, detect_locals, returned, wk_citations,
                 project_citations, arg, ret>>

\* detect, step 1: raw_matches = self._scan(pages)
Step1_Scan ==
  /\ pc = "step1"
  /\ raw_matches' = scan(pages)
  /\ pc' = "step2"
  /\ UNCHANGED <<run, pages, citations, full_cites, short_cites, key_to_cite, idx,
                 result, returned, wk_citations, project_citations, arg, ret>>

\* detect, step 2: raw_matches = self._remove_overlaps(raw_matches)
Step2_RemoveOverlaps ==
  /\ pc = "step2"
  /\ raw_matches' = remove_overlaps(raw_matches)
  /\ pc' = "step3"
  /\ UNCHANGED <<run, pages, citations, full_cites, short_cites, key_to_cite, idx,
                 result, returned, wk_citations, project_citations, arg, ret>>

\* detect, step 3: citations = self._to_citations(raw_matches)
Step3_ToCitations ==
  /\ pc = "step3"
  /\ citations' = to_citations(raw_matches)
  /\ pc' = "step4"
  /\ UNCHANGED <<run, pages, raw_matches, full_cites, short_cites, key_to_cite, idx,
                 result, returned, wk_citations, project_citations, arg, ret>>

\* Step 4 without the filter on full_cites.
Step4_Separate_unfiltered ==
  /\ pc = "step4"
  /\ full_cites' = citations
  /\ short_cites' = SelectSeq(citations, LAMBDA c : c.is_short_form)
  /\ pc' = "step5"
  /\ UNCHANGED <<run, pages, raw_matches, citations, key_to_cite, idx, result,
                 returned, wk_citations, project_citations, arg, ret>>

\* detect, step 4: the short forms are separated from the full citations.
Step4_Separate ==
  /\ pc = "step4"
  /\ full_cites' = SelectSeq(citations, LAMBDA c : ~c.is_short_form)
  /\ short_cites' = SelectSeq(citations, LAMBDA c : c.is_short_form)
  /\ pc' = "step5"
  /\ UNCHANGED <<run, pages, raw_matches, citations, key_to_cite, idx, result,
                 returned, wk_citations, project_citations, arg, ret>>

\* Step 5 for a resolver that cannot do without a full citation.
Step5_Resolve_needing_fulls ==
  /\ pc = "step5"
  /\ full_cites # <<>>
  /\ short_cites' = resolve_short_forms(full_cites, short_cites)
  /\ pc' = "step6"
  /\ UNCHANGED <<run, pages, raw_matches, citations, full_cites, key_to_cite, idx,
                 result, returned, wk_citations, project_citations, arg, ret>>

\* detect, step 5: resolve_short_forms(full_cites, short_cites)
Step5_Resolve ==
  /\ pc = "step5"
  /\ short_cites' = resolve_short_forms(full_cites, short_cites)
  /\ pc' = "step6"
  /\ UNCHANGED <<run, pages, raw_matches, citations, full_cites, key_to_cite, idx,
                 result, returned, wk_citations, project_citations, arg, ret>>

\* detect, step 6: key_to_cite = {}
Step6_Begin ==
  /\ pc = "step6"
  /\ key_to_cite' = <<>>
  /\ idx' = 1
  /\ pc' = "merge_full"
  /\ UNCHANGED <<run, pages, raw_matches, citations, full_cites, short_cites,
                 result, returned, wk_citations, project_citations, arg, ret>>

\* detect, step 6: one turn of "for c in full_cites".
Step6_MergeFull ==
  /\ pc = "merge_full"
  /\ idx <= Len(full_cites)
  /\ key_to_cite' = merge_full(key_to_cite, full_cites[idx])
  /\ idx' = idx + 1
  /\ UNCHANGED <<pc, run, pages, raw_matches, citations, full_cites, short_cites,
                 result, returned, wk_citations, project_citations, arg, ret>>

\* detect, step 6: the loop over full_cites is over, the loop over short_cites
\* begins.
Step6_FullDone ==
  /\ pc = "merge_full"
  /\ idx > Len(full_cites)
  /\ idx' = 1
  /\ pc' = "merge_short"
  /\ UNCHANGED <<run, pages, raw_matches, citations, full_cites, short_cites,
                 key_to_cite, result, returned, wk_citations, project_citations,
                 arg, ret>>

\* detect, step 6: one turn of "for sc in short_cites".
Step6_MergeShort ==
  /\ pc = "merge_short"
  /\ idx <= Len(short_cites)
  /\ key_to_cite' = merge_short(key_to_cite, short_cites[idx])
  /\ idx' = idx + 1
  /\ UNCHANGED <<pc, run, pages, raw_matches, citations, full_cites, short_cites,
                 result, returned, wk_citations, project_citations, arg, ret>>

\* Step 7 with the values taken in no fixed order, as when they are passed
\* through a set.
Step7_Dedup_unordered ==
  /\ pc = "merge_short"
  /\ idx > Len(short_cites)
  /\ \E order \in Permutations(1..Len(key_to_cite)) :
       result' = [k \in 1..Len(key_to_cite) |-> key_to_cite[order[k]]]
  /\ pc' = "step8"
  /\ UNCHANGED <<run, pages, raw_matches, citations, full_cites, short_cites,
                 key_to_cite, idx, returned, wk_citations, project_citations,
                 arg, ret>>

\* detect, step 7: result = list(key_to_cite.values())
Step7_Dedup ==
  /\ pc = "merge_short"
  /\ idx > Len(short_cites)
  /\ result' = key_to_cite
  /\ pc' = "step8"
  /\ UNCHANGED <<run, pages, raw_matches, citations, full_cites, short_cites,
                 key_to_cite, idx, returned, wk_citations, project_citations,
                 arg, ret>>

\* detect, step 8: the sort keys are generated and result is sorted.
Step8_Sort ==
  /\ pc = "step8"
  /\ result' = sort_result(result)
  /\ pc' = "return"
  /\ UNCHANGED <<run, pages, raw_matches, citations, full_cites, short_cites,
                 key_to_cite, idx, returned, wk_citations, project_citations,
                 arg, ret>>

\* detect returns result; _detect_worker: citations = detector.detect(pages)
Detect_Return ==
  /\ pc = "return"
  /\ returned' = Append(returned, result)
  /\ wk_citations' = result
  /\ pc' = "reclassify"
  /\ UNCHANGED <<run, pages, detect_locals, project_citations, arg, ret>>

\* _detect_worker, step 3: reclassify(citations)
Worker_Reclassify ==
  /\ pc = "reclassify"
  /\ wk_citations' = reclassify(wk_citations)
  /\ pc' = "classify"
  /\ UNCHANGED <<run, pages, detect_locals, returned, project_citations, arg, ret>>

\* The answers the provider gives the worker.
WORKER_RESPONSES == Responses(MaxPages, 1)

\* _detect_worker, step 4, "if ambiguous and settings.ai_enabled":
\* classify_ambiguous(ambiguous), with or without an API key, on an answer of
\* the provider.
Worker_ClassifyAmbiguous ==
  /\ pc = "classify"
  /\ get_ambiguous(wk_citations) # <<>>
  /\ \E has_api_key \in BOOLEAN, response \in WORKER_RESPONSES :
       wk_citations' =
         classified_in_place(wk_citations,
           classify_ambiguous(get_ambiguous(wk_citations), has_api_key, response))
  /\ pc' = "store"
  /\ UNCHANGED <<run, pages, detect_locals, returned, project_citations, arg, ret>>

\* _detect_worker, step 4, "elif ambiguous and not settings.ai_enabled": the
\* status line says that the AI is off.
Worker_AIOff ==
  /\ pc = "classify"
  /\ get_ambiguous(wk_citations) # <<>>
  /\ pc' = "store"
  /\ UNCHANGED <<run, pages, detect_locals, returned, wk_citations,
                 project_citations, arg, ret>>

\* _detect_worker, step 4: there is no ambiguous citation.
Worker_NoAmbiguous ==
  /\ pc = "classify"
  /\ get_ambiguous(wk_citations) = <<>>
  /\ pc' = "store"
  /\ UNCHANGED <<run, pages, detect_locals, returned, wk_citations,
                 project_citations, arg, ret>>

\* _detect_worker, step 5: self.project.citations = citations
Worker_Store ==
  /\ pc = "store"
  /\ project_citations' = wk_citations
  /\ pc' = "done"
  /\ UNCHANGED <<run, pages, detect_locals, returned, wk_citations, arg, ret>>

\* _process: the user starts the detection again on the same document.
Process_Again ==
  /\ pc = "done"
  /\ run < MaxRuns
  /\ run' = run + 1
  /\ pc' = "parse"
  /\ UNCHANGED <<pages, detect_locals, returned, wk_citations, project_citations,
                 arg, ret>>

Next ==
  \/ Worker_NoText
  \/ Worker_CallDetect
  \/ Step1_Scan
  \/ Step2_RemoveOverlaps
  \/ Step3_ToCitations
  \/ Step4_Separate
  \/ Step5_Resolve
  \/ Step6_Begin
  \/ Step6_MergeFull
  \/ Step6_FullDone
  \/ Step6_MergeShort
  \/ Step7_Dedup
  \/ Step8_Sort
  \/ Detect_Return
  \/ Worker_Reclassify
  \/ Worker_ClassifyAmbiguous
  \/ Worker_AIOff
  \/ Worker_NoAmbiguous
  \/ Worker_Store
  \/ Process_Again

Spec == Init /\ [][Next]_vars

\* The worker thread, once started, runs on until it returns: every step but
\* the user's starting the detection again is taken if it stays possible.
FairSpec == Spec /\ WF_vars(Next /\ pc # "done")

(***************************************************************************)
(* _remove_overlaps applied on its own to a list of raw matches.           *)
(***************************************************************************)

\* The longest list of raw matches.
MaxMatches == 3

\* The greatest character offset.
MaxOffset == 3

\* The patterns the raw matches come from.
OVERLAP_PATTERNS ==
  {r \in Range(PATTERN_REGISTRY) :
     r.name \in {"case_full", "statute_usc", "short_case_pincite"}}

\* The place of a pattern in the registry.
registry_index(name) ==
  CHOOSE i \in DOMAIN PATTERN_REGISTRY : PATTERN_REGISTRY[i].name = name

\* The raw matches of one page: every pattern, every non-empty interval.
RawMatches ==
  {m \in {[text |-> <<>>, start |-> a, end |-> b, page |-> 1,
           pattern_name |-> r.name, category |-> r.category] :
             a \in 0..MaxOffset, b \in 0..MaxOffset, r \in OVERLAP_PATTERNS} :
     m.start < m.end}

\* m may follow the list l in what _scan returns: the patterns come in
\* registry order, and the matches of one pattern, which finditer returns,
\* follow one another without overlap.
may_follow(l, m) ==
  \/ l = <<>>
  \/ registry_index(l[Len(l)].pattern_name) < registry_index(m.pattern_name)
  \/ l[Len(l)].pattern_name = m.pattern_name /\ l[Len(l)].end <= m.start

\* The lists of at most n raw matches that _scan can return for one page.
RECURSIVE MatchLists(_)
MatchLists(n) ==
  IF n = 0 THEN {<<>>}
  ELSE LET shorter == MatchLists(n - 1)
       IN shorter \cup
          {Append(p[1], p[2]) :
             p \in {q \in {l \in shorter : Len(l) = n - 1} \X RawMatches :
                      may_follow(q[1], q[2])}}

InitOverlap ==
  /\ pc = "call"
  /\ arg \in MatchLists(MaxMatches)
  /\ ret = <<>>
  /\ run = 1
  /\ pages = <<>>
  /\ raw_matches = <<>>
  /\ citations = <<>>
  /\ full_cites = <<>>
  /\ short_cites = <<>>
  /\ key_to_cite = <<>>
  /\ idx = 1
  /\ result = <<>>
  /\ returned = <<>>
  /\ wk_citations = <<>>
  /\ project_citations = <<>>

\* kept = self._remove_overlaps(matches)
Apply_RemoveOverlaps ==
  /\ pc = "call"
  /\ ret' = remove_overlaps(arg)
  /\ pc' = "returned"
  /\ UNCHANGED <<run, pages, detect_locals, returned, wk_citations,
                 project_citations, arg>>

NextOverlap == Apply_RemoveOverlaps

SpecOverlap == InitOverlap /\ [][NextOverlap]_vars

(***************************************************************************)
(* reclassify applied on its own to a list of citations, and then to the   *)
(* list it returned.  ret holds what the calls returned, in their order.   *)
(***************************************************************************)

\* The longest list of citations.
MaxCites == 1

\* The confidences of the citations given to reclassify: that of a new
\* citation, and one that no rule of reclassify assigns.
INPUT_CONFIDENCES == {CONF_FULL, 30}

\* The citations: every matched text in every category, short form or not.
InputCitations ==
  {[full_text      |-> t,
    display_name   |-> DISPLAYED[t].display_name,
    category       |-> c,
    pages          |-> <<1>>,
    is_primary     |-> FALSE,
    is_short_form  |-> sf,
    parent_key     |-> None,
    normalized_key |-> IF sf THEN <<>> ELSE NORMALIZED[t, "case_full"],
    confidence     |-> cf,
    sort_key       |-> <<>>] :
     t \in CITED_TEXTS, c \in Range(CitationCategory), sf \in BOOLEAN,
     cf \in INPUT_CONFIDENCES}

InitReclassify ==
  /\ pc = "call"
  /\ arg \in UNION {[1..n -> InputCitations] : n \in 0..MaxCites}
  /\ ret = <<>>
  /\ run = 1
  /\ pages = <<>>
  /\ raw_matches = <<>>
  /\ citations = <<>>
  /\ full_cites = <<>>
  /\ short_cites = <<>>
  /\ key_to_cite = <<>>
  /\ idx = 1
  /\ result = <<>>
  /\ returned = <<>>
  /\ wk_citations = <<>>
  /\ project_citations = <<>>

\* once = reclassify(citations)
Reclassify_Once ==
  /\ pc = "call"
  /\ ret' = <<reclassify(arg)>>
  /\ pc' = "once"
  /\ UNCHANGED <<run, pages, detect_locals, returned, wk_citations,
                 project_citations, arg>>

\* twice = reclassify(once)
Reclassify_Twice ==
  /\ pc = "once"
  /\ ret' = Append(ret, reclassify(ret[1]))
  /\ pc' = "twice"
  /\ UNCHANGED <<run, pages, detect_locals, returned, wk_citations,
                 project_citations, arg>>

NextReclassify == Reclassify_Once \/ Reclassify_Twice

SpecReclassify == InitReclassify /\ [][NextReclassify]_vars

(***************************************************************************)
(* classify_ambiguous applied on its own to a list of citations, with and  *)
(* without an API key, on every answer of the provider.  arg holds the     *)
(* list, the key and the answer; ret the list returned.                    *)
(***************************************************************************)

\* The longest list of ambiguous citations.
MaxAmbiguous == 2

\* The longest array in an answer.
MaxItems == 1

\* An ambiguous citation of a category.
ambiguous_cite(c) ==
  [full_text      |-> match_text(TEXT_AB_NL, HITS_AB_NL[1]),
   display_name   |-> DISPLAYED[match_text(TEXT_AB_NL, HITS_AB_NL[1])].display_name,
   category       |-> c,
   pages          |-> <<1>>,
   is_primary     |-> FALSE,
   is_short_form  |-> FALSE,
   parent_key     |-> None,
   normalized_key |-> NORMALIZED[match_text(TEXT_AB_NL, HITS_AB_NL[1]), "case_full"],
   confidence     |-> CONF_AMBIGUOUS,
   sort_key       |-> <<>>]

\* The lists given to classify_ambiguous.
AmbiguousLists ==
  UNION {[1..n -> {ambiguous_cite(CASES), ambiguous_cite(RULES)}] : n \in 0..MaxAmbiguous}

InitClassify ==
  /\ pc = "call"
  /\ arg \in [citations : AmbiguousLists, has_api_key : BOOLEAN,
              response : Responses(MaxAmbiguous, MaxItems)]
  /\ ret = <<>>
  /\ run = 1
  /\ pages = <<>>
  /\ raw_matches = <<>>
  /\ citations = <<>>
  /\ full_cites = <<>>
  /\ short_cites = <<>>
  /\ key_to_cite = <<>>
  /\ idx = 1
  /\ result = <<>>
  /\ returned = <<>>
  /\ wk_citations = <<>>
  /\ project_citations = <<>>

\* ret = classify_ambiguous(citations)
Classify_Call ==
  /\ pc = "call"
  /\ ret' = classify_ambiguous(arg.citations, arg.has_api_key, arg.response)
  /\ pc' = "returned"
  /\ UNCHANGED <<run, pages, detect_locals, returned, wk_citations,
                 project_citations, arg>>

NextClassify == Classify_Call

SpecClassify == InitClassify /\ [][NextClassify]_vars

(***************************************************************************)
(* Concurrent invocations of CitationDetector.detect.  Every name that     *)
(* detect and the methods it calls assign is a local of the invocation: an *)
(* invocation is its frame, and a step of it reads and writes that frame   *)
(* alone.  The frames of the invocations and the module-level              *)
(* PATTERN_REGISTRY are in ret, the arguments in arg.                      *)
(***************************************************************************)

\* The concurrent invocations: a pair, on which any interference of one
\* invocation with another shows.
INVOCATIONS == {1, 2}

\* The number of pages of the longest document of an invocation.
MaxConcurrentPages == 1

\* The texts of the pages of the concurrent documents: a full citation, a
\* statute, an Id. short form and a page without a citation.
CONCURRENT_TEXTS == {TEXT_AB_CD, TEXT_USC, TEXT_ID_AT, TEXT_NO_CITE}

ConcurrentDocuments ==
  UNION {{[i \in 1..n |-> [page |-> i, text |-> t[i]]] : t \in [1..n -> CONCURRENT_TEXTS]} :
           n \in 0..MaxConcurrentPages}

\* The frame of an invocation detect(pages_) that has not begun.
frame_of(pages_) ==
  [pc |-> "step1", pages |-> pages_, raw_matches |-> <<>>, citations |-> <<>>,
   full_cites |-> <<>>, short_cites |-> <<>>, key_to_cite |-> <<>>, idx |-> 1,
   result |-> <<>>]

\* One step of detect in the frame f: the frame after it.
step_of(f) ==
  CASE f.pc = "step1" ->
         [f EXCEPT !.raw_matches = scan(f.pages), !.pc = "step2"]
    [] f.pc = "step2" ->
         [f EXCEPT !.raw_matches = remove_overlaps(f.raw_matches), !.pc = "step3"]
    [] f.pc = "step3" ->
         [f EXCEPT !.citations = to_citations(f.raw_matches), !.pc = "step4"]
    [] f.pc = "step4" ->
         [f EXCEPT !.full_cites = SelectSeq(f.citations, LAMBDA c : ~c.is_short_form),
                   !.short_cites = SelectSeq(f.citations, LAMBDA c : c.is_short_form),
                   !.pc = "step5"]
    [] f.pc = "step5" ->
         [f EXCEPT !.short_cites = resolve_short_forms(f.full_cites, f.short_cites),
                   !.pc = "step6"]
    [] f.pc = "step6" ->
         [f EXCEPT !.key_to_cite = <<>>, !.idx = 1, !.pc = "merge_full"]
    [] f.pc = "merge_full" /\ f.idx <= Len(f.full_cites) ->
         [f EXCEPT !.key_to_cite = merge_full(f.key_to_cite, f.full_cites[f.idx]),
                   !.idx = f.idx + 1]
    [] f.pc = "merge_full" /\ f.idx > Len(f.full_cites) ->
         [f EXCEPT !.idx = 1, !.pc = "merge_short"]
    [] f.pc = "merge_short" /\ f.idx <= Len(f.short_cites) ->
         [f EXCEPT !.key_to_cite = merge_short(f.key_to_cite, f.short_cites[f.idx]),
                   !.idx = f.idx + 1]
    [] f.pc = "merge_short" /\ f.idx > Len(f.short_cites) ->
         [f EXCEPT !.result = f.key_to_cite, !.pc = "step8"]
    [] f.pc = "step8" ->
         [f EXCEPT !.result = sort_result(f.result), !.pc = "returned"]
    [] OTHER -> f

\* A step of invocation i for a detector that keeps the matches of _scan in
\* an attribute shared by the invocations: the scan of one overwrites the
\* matches of all.
detect_step_sharing_matches(frames, i) ==
  [j \in DOMAIN frames |->
     IF j = i THEN step_of(frames[i])
     ELSE IF frames[i].pc = "step1"
     THEN [frames[j] EXCEPT !.raw_matches = step_of(frames[i]).raw_matches]
     ELSE frames[j]]

\* A step of invocation i among the invocations frames.
detect_step(frames, i) == [frames EXCEPT ![i] = step_of(frames[i])]

\* detect(pages_) run alone, from its call to its return: the list returned.
RECURSIVE run_alone(_)
run_alone(frames) ==
  IF frames[1].pc = "returned" THEN frames[1].result
  ELSE run_alone(detect_step(frames, 1))

\* The list each concurrent document gives when detect runs alone on it.
DETECT_ALONE == [d \in ConcurrentDocuments |-> run_alone(<<frame_of(d)>>)]

InitConcurrent ==
  /\ pc = "concurrent"
  /\ arg \in [INVOCATIONS -> ConcurrentDocuments]
  /\ ret = [frames |-> [i \in INVOCATIONS |-> frame_of(arg[i])],
            registry |-> PATTERN_REGISTRY]
  /\ run = 1
  /\ pages = <<>>
  /\ raw_matches = <<>>
  /\ citations = <<>>
  /\ full_cites = <<>>
  /\ short_cites = <<>>
  /\ key_to_cite = <<>>
  /\ idx = 1
  /\ result = <<>>
  /\ returned = <<>>
  /\ wk_citations = <<>>
  /\ project_citations = <<>>

\* Some invocation that has not returned takes its next step.
Concurrent_Step ==
  /\ pc = "concurrent"
  /\ \E i \in INVOCATIONS :
       /\ ret.frames[i].pc # "returned"
       /\ ret' = [ret EXCEPT !.frames = detect_step(ret.frames, i)]
  /\ UNCHANGED <<pc, run, pages, detect_locals, returned, wk_citations,
                 project_citations, arg>>

NextConcurrent == Concurrent_Step

SpecConcurrent == InitConcurrent /\ [][NextConcurrent]_vars

(***************************************************************************)
(* _scan and _remove_overlaps under a permuted registry.  The argument is  *)
(* what the patterns match in one page, as a set of hits, and an order of  *)
(* the rules; _scan lists the hits rule by rule in that order.             *)
(***************************************************************************)

\* The rules of OVERLAP_PATTERNS in the order of PATTERN_REGISTRY.
OVERLAP_REGISTRY == SelectSeq(PATTERN_REGISTRY, LAMBDA r : r \in OVERLAP_PATTERNS)

\* Every order of these rules.
PermutedRegistries ==
  {[i \in 1..Len(OVERLAP_REGISTRY) |-> OVERLAP_REGISTRY[p[i]]] :
     p \in Permutations(1..Len(OVERLAP_REGISTRY))}

\* The sets of at most n hits in one page: the hits of one pattern, which
\* finditer returns, do not overlap.
RECURSIVE HitSets(_)
HitSets(n) ==
  IF n = 0 THEN {{}}
  ELSE LET fewer == HitSets(n - 1)
       IN fewer \cup
          {q[1] \cup {q[2]} :
             q \in {r \in fewer \X RawMatches :
                      \A h \in r[1] :
                        h.pattern_name = r[2].pattern_name
                          => h.end <= r[2].start \/ r[2].end <= h.start}}

\* The hits of a set in the order of their starts, as finditer yields the
\* matches of one pattern.
by_start(hits) ==
  [i \in 1..Cardinality(hits) |->
     CHOOSE m \in hits : Cardinality({x \in hits : x.start < m.start}) = i - 1]

\* _scan with the rules taken from the last of the registry to the first.
scan_hits_from_last(registry, hits) ==
  concat_all([r \in 1..Len(registry) |->
    by_start({h \in hits : h.pattern_name = registry[Len(registry) + 1 - r].name})])

\* _scan of one page under the registry: for each rule in its order, the
\* hits of the rule.
scan_hits(registry, hits) ==
  concat_all([r \in 1..Len(registry) |->
    by_start({h \in hits : h.pattern_name = registry[r].name})])

InitRegistry ==
  /\ pc = "call"
  /\ arg \in [hits : HitSets(MaxMatches), registry : PermutedRegistries]
  /\ ret = <<>>
  /\ run = 1
  /\ pages = <<>>
  /\ raw_matches = <<>>
  /\ citations = <<>>
  /\ full_cites = <<>>
  /\ short_cites = <<>>
  /\ key_to_cite = <<>>
  /\ idx = 1
  /\ result = <<>>
  /\ returned = <<>>
  /\ wk_citations = <<>>
  /\ project_citations = <<>>

\* _remove_overlaps(_scan(pages)) under PATTERN_REGISTRY as it is and under
\* the permuted registry.
Scan_BothOrders ==
  /\ pc = "call"
  /\ ret' = [registered |-> remove_overlaps(scan_hits(OVERLAP_REGISTRY, arg.hits)),
             permuted   |-> remove_overlaps(scan_hits(arg.registry, arg.hits))]
  /\ pc' = "returned"
  /\ UNCHANGED <<run, pages, detect_locals, returned, wk_citations,
                 project_citations, arg>>

NextRegistry == Scan_BothOrders

SpecRegistry == InitRegistry /\ [][NextRegistry]_vars

(***************************************************************************)
(* Properties of _remove_overlaps (SpecOverlap).                           *)
(***************************************************************************)

\* Two matches share a character position.
intersect(a, b) == a.start < b.end /\ b.start < a.end

\* The length of a match, in characters.
length(m) == m.end - m.start

\* m is among the matches _remove_overlaps accepted.
accepted(m) == m \in Range(ret)

\* C1: in the list _remove_overlaps returns, no two matches overlap: of any
\* two of them, one ends at or before the offset the other starts at.
C1_NoTwoAcceptedOverlap ==
  pc = "returned" =>
    \A i, j \in 1..Len(ret) :
      i < j => ret[i].end <= ret[j].start \/ ret[j].end <= ret[i].start

\* _remove_overlaps was given overlapping candidates, discarded some and
\* accepted at least two.
C1_Witness ==
  /\ pc = "returned"
  /\ \E i, j \in 1..Len(arg) : i # j /\ intersect(arg[i], arg[j])
  /\ Len(ret) >= 2
  /\ Len(ret) < Len(arg)

\* C2, as stated: of two overlapping candidates of different lengths, the
\* longer is always among the accepted matches.
C2_LongerAlwaysAccepted ==
  pc = "returned" =>
    \A i, j \in 1..Len(arg) :
      intersect(arg[i], arg[j]) /\ length(arg[i]) > length(arg[j])
        => accepted(arg[i])

\* C2, amended: of two overlapping candidates of different lengths, the two
\* are never both accepted, and the longer is accepted unless it overlaps an
\* accepted match that is at least as long as itself.
C2_LongerAcceptedUnlessBlocked ==
  pc = "returned" =>
    \A i, j \in 1..Len(arg) :
      intersect(arg[i], arg[j]) /\ length(arg[i]) > length(arg[j])
        => /\ ~(accepted(arg[i]) /\ accepted(arg[j]))
           /\ \/ accepted(arg[i])
              \/ \E c \in Range(ret) :
                   intersect(c, arg[i]) /\ length(c) >= length(arg[i])

\* The longer of two overlapping candidates was discarded for a match at
\* least as long as itself, and the shorter one was accepted.
C2_Witness ==
  /\ pc = "returned"
  /\ \E i, j \in 1..Len(arg) :
       /\ intersect(arg[i], arg[j])
       /\ length(arg[i]) > length(arg[j])
       /\ ~accepted(arg[i])
       /\ accepted(arg[j])

(***************************************************************************)
(* Properties of detect and of the detection worker (Spec).                *)
(***************************************************************************)

\* detect is about to return result: its locals hold the values of this run.
detect_returning == pc = "return"

\* A short form that resolve_short_forms has linked to a full citation.
resolved(sc) == sc.parent_key # None /\ sc.parent_key # <<>>

\* The pages of the citations of a list that satisfy Test.
pages_of(cites, Test(_)) ==
  UNION {Range(cites[i].pages) : i \in {k \in 1..Len(cites) : Test(cites[k])}}

\* C3: in a list detect has returned, no two entries have the same non-empty
\* normalized_key.
C3_NoTwoEntriesShareKey ==
  \A r \in 1..Len(returned) :
    \A i, j \in 1..Len(returned[r]) :
      i # j /\ returned[r][i].normalized_key # <<>>
        => returned[r][i].normalized_key # returned[r][j].normalized_key

\* detect has returned on a document in which two full citations have the
\* same non-empty key.
C3_Witness ==
  /\ pc = "reclassify"
  /\ returned # <<>>
  /\ \E i, j \in 1..Len(full_cites) :
       /\ i < j
       /\ full_cites[i].normalized_key # <<>>
       /\ full_cites[i].normalized_key = full_cites[j].normalized_key

\* C4: of the short forms built during detect, none is an entry of the list
\* returned; each page of a resolved one is among the pages of the entry whose
\* normalized_key is its parent_key; and an unresolved one adds nothing: no
\* entry has its text, and every page of every entry is the page of a full
\* citation with the entry's key or of a short form resolved to that key.
C4_ShortFormClosure ==
  detect_returning =>
    /\ \A i \in 1..Len(result) : ~result[i].is_short_form
    /\ \A k \in 1..Len(short_cites) :
         LET sc == short_cites[k]
         IN IF resolved(sc)
            THEN \E i \in 1..Len(result) :
                   /\ result[i].normalized_key = sc.parent_key
                   /\ Range(sc.pages) \subseteq Range(result[i].pages)
            ELSE \A i \in 1..Len(result) :
                   /\ result[i].full_text # sc.full_text
                   /\ Range(result[i].pages) \subseteq
                        pages_of(full_cites,
                                 LAMBDA c : c.normalized_key = result[i].normalized_key)
                        \cup pages_of(short_cites,
                                 LAMBDA c : resolved(c) /\
                                            c.parent_key = result[i].normalized_key)

\* detect is about to return on a document with a short form that was
\* resolved and one that was not.
C4_Witness ==
  /\ detect_returning
  /\ \E k \in 1..Len(short_cites) : resolved(short_cites[k])
  /\ \E k \in 1..Len(short_cites) : ~resolved(short_cites[k])
  /\ result # <<>>

\* The order of the final list: (category.sort_order, sort_key) does not
\* decrease from an entry to the next.
ascending(list) ==
  \A i \in 1..(Len(list) - 1) : ~category_then_key(list[i + 1], list[i])

\* C5: the list the worker stores in the project, after every stage has run,
\* is in ascending order of (category.sort_order, sort_key).
C5_FinalListAscending == ascending(project_citations)

\* A list of page numbers is sorted ascending and has no duplicates.
strictly_ascending(p) == \A i \in 1..(Len(p) - 1) : p[i] < p[i + 1]

\* Every citation of a list has its pages sorted and without duplicates.
pages_in_order(cites) == \A i \in 1..Len(cites) : strictly_ascending(cites[i].pages)

\* In every list of citations that detect and the worker hold, the pages are
\* sorted and without duplicates.
all_pages_in_order ==
  /\ pages_in_order(citations)
  /\ pages_in_order(full_cites)
  /\ pages_in_order(short_cites)
  /\ pages_in_order(key_to_cite)
  /\ pages_in_order(result)
  /\ pages_in_order(wk_citations)
  /\ pages_in_order(project_citations)
  /\ \A r \in 1..Len(returned) : pages_in_order(returned[r])

\* A turn of one of the two merge loops of step 6 keeps every entry of
\* key_to_cite and every page of every entry.
merge_keeps_pages ==
  pc \in {"merge_full", "merge_short"} /\ pc' = pc =>
    \A i \in 1..Len(key_to_cite) :
      /\ i <= Len(key_to_cite')
      /\ Range(key_to_cite[i].pages) \subseteq Range(key_to_cite'[i].pages)

\* C6: in every state, the pages of every citation are sorted ascending with
\* no duplicates, and every merge step (merge_pages of a duplicate full
\* citation, absorption of the pages of a resolved short form) keeps every
\* page the canonical entry had.
C6_PagesSortedAndMergeMonotone ==
  []all_pages_in_order /\ [][merge_keeps_pages]_vars

\* A merge has added a page to an entry that had one.
C6_Witness ==
  /\ pc \in {"merge_full", "merge_short"}
  /\ \E i \in 1..Len(key_to_cite) : Len(key_to_cite[i].pages) >= 2

\* C7: the pages of every entry detect returns are exactly the pages of the
\* accepted full-form matches with the entry's normalized_key together with
\* the pages of the short forms resolved to that key.
C7_PagesAreExactlyTheEvidence ==
  detect_returning =>
    \A i \in 1..Len(result) :
      Range(result[i].pages) =
        pages_of(citations,
                 LAMBDA c : ~c.is_short_form /\
                            c.normalized_key = result[i].normalized_key)
        \cup pages_of(short_cites,
                 LAMBDA c : resolved(c) /\ c.parent_key = result[i].normalized_key)

\* An entry detect is about to return has a page that only a resolved short
\* form gave it.
C7_Witness ==
  /\ detect_returning
  /\ \E i \in 1..Len(result) :
       pages_of(short_cites,
                LAMBDA c : resolved(c) /\ c.parent_key = result[i].normalized_key)
       \ pages_of(citations,
                LAMBDA c : ~c.is_short_form /\
                           c.normalized_key = result[i].normalized_key) # {}

\* The first full citation, in document order, with a key.
first_with_key(key) ==
  full_cites[CHOOSE i \in 1..Len(full_cites) :
               /\ full_cites[i].normalized_key = key
               /\ \A j \in 1..(i - 1) : full_cites[j].normalized_key # key]

\* C8: the entry detect returns for a key is the first full citation with
\* that key in document order, changed in its pages only (and in the sort key
\* step 8 gives it): its full_text, display_name, category, confidence,
\* is_primary and normalized_key are those the first one was built with.
C8_FirstSeenIsCanonical ==
  detect_returning =>
    \A i \in 1..Len(result) :
      LET first == first_with_key(result[i].normalized_key)
      IN /\ result[i].full_text = first.full_text
         /\ result[i].display_name = first.display_name
         /\ result[i].category = first.category
         /\ result[i].confidence = first.confidence
         /\ result[i].is_primary = first.is_primary
         /\ result[i].normalized_key = first.normalized_key
         /\ result[i].is_short_form = first.is_short_form
         /\ result[i].parent_key = first.parent_key

\* detect is about to return on a document in which two full citations with
\* different texts have the same key.
C8_Witness ==
  /\ detect_returning
  /\ \E i, j \in 1..Len(full_cites) :
       /\ i < j
       /\ full_cites[i].normalized_key = full_cites[j].normalized_key
       /\ full_cites[i].full_text # full_cites[j].full_text

list_of_entries(list) ==
  \A i \in 1..Len(list) :
    /\ list[i].category \in Range(CitationCategory)
    /\ ~list[i].is_short_form
    /\ list[i].pages # <<>>
    /\ list[i].normalized_key # <<>>

C10_ReclassifyIdempotent ==
  pc = "twice" =>
    /\ Len(ret[2]) = Len(ret[1])
    /\ \A i \in 1..Len(ret[1]) :
         /\ ret[2][i].category = ret[1][i].category
         /\ ret[2][i].confidence = ret[1][i].confidence

\* reclassify has run twice on a list in which the first run lowered the
\* confidence of a suspicious case.
C10_Witness ==
  /\ pc = "twice"
  /\ \E i \in 1..Len(arg) :
       /\ arg[i].confidence = CONF_FULL
       /\ ret[1][i].confidence = CONF_AMBIGUOUS

(***************************************************************************)
(* Properties of classify_ambiguous (SpecClassify).                        *)
(***************************************************************************)

\* An item of the answer is about the i-th citation of the list.
addresses(item, i) ==
  item.kind = "object" /\ item.index.type = "int" /\ item.index.value = i - 1

\* An item carries a label, and the label is one of the recognised labels or
\* not.
labelled(item, recognised) ==
  /\ item.kind = "object"
  /\ item.category.type = "str"
  /\ in_category_map(lower(item.category.value)) = recognised

\* The answer gives the i-th citation a label that is not recognised, and no
\* label that is.
only_unrecognised_labels(i) ==
  /\ arg.response.kind = "array"
  /\ \E k \in 1..Len(arg.response.items) :
       addresses(arg.response.items[k], i) /\ labelled(arg.response.items[k], FALSE)
  /\ ~\E k \in 1..Len(arg.response.items) :
       addresses(arg.response.items[k], i) /\ labelled(arg.response.items[k], TRUE)

\* C11: a citation to which the answer of the AI classifier gives a label
\* that is not recognised (and no recognised one) keeps the category and the
\* confidence it had, and the category of every citation is one of the five
\* categories.
C11_UnrecognisedLabelIgnored ==
  pc = "returned" =>
    /\ Len(ret) = Len(arg.citations)
    /\ \A i \in 1..Len(ret) :
         /\ ret[i].category \in Range(CitationCategory)
         /\ only_unrecognised_labels(i) =>
              /\ ret[i].category = arg.citations[i].category
              /\ ret[i].confidence = arg.citations[i].confidence

\* classify_ambiguous has returned, with an API key, on an answer that gives
\* a citation of the list a label that is not recognised.
C11_Witness ==
  /\ pc = "returned"
  /\ arg.has_api_key
  /\ \E i \in 1..Len(arg.citations) : only_unrecognised_labels(i)

\* C12: classify_ambiguous returns the list it was given, with the same
\* entries in the same order: each differs from what it was in category and
\* confidence at most.
C12_ClassifyFrame ==
  pc = "returned" =>
    /\ Len(ret) = Len(arg.citations)
    /\ \A i \in 1..Len(arg.citations) :
         [ret[i] EXCEPT !.category = arg.citations[i].category,
                        !.confidence = arg.citations[i].confidence]
           = arg.citations[i]

\* classify_ambiguous has returned on a list of two entries: with the second
\* entry reclassified, and after the provider failed.
C12_Witness ==
  /\ pc = "returned"
  /\ Len(arg.citations) = 2
  /\ \/ ret[2].category # arg.citations[2].category
     \/ arg.has_api_key /\ arg.response.kind = "raises"

(***************************************************************************)
(* Properties of concurrent invocations of detect (SpecConcurrent).        *)
(***************************************************************************)

C15_KeyEmptyIffShortForm ==
  pc = "step4" =>
    \A k \in 1..Len(citations) :
      (citations[k].normalized_key = <<>>) <=> citations[k].is_short_form

\* _to_citations has created a short form and a full citation.
C15_Witness ==
  /\ pc = "step4"
  /\ \E k \in 1..Len(citations) : citations[k].is_short_form
  /\ \E k \in 1..Len(citations) : ~citations[k].is_short_form

\* Every citation that the detection holds: in the locals of detect, in the
\* lists it has returned, in the worker and in the project.
held_citations ==
  citations \o full_cites \o short_cites \o key_to_cite \o result
  \o concat_all(returned) \o wk_citations \o project_citations

\* C16: in every state reached through the creation of the citations, the
\* rule-based reclassification and the AI classification, the confidence of
\* every citation lies in [0, 1] (in hundredths: 0..100); and it is 1.0 when
\* _to_citations has just created the citation.
C16_ConfidenceInUnitInterval ==
  /\ \A k \in 1..Len(held_citations) :
       held_citations[k].confidence >= 0 /\ held_citations[k].confidence <= 100
  /\ pc = "step4" => \A k \in 1..Len(citations) : citations[k].confidence = CONF_FULL

\* The worker holds, after the AI classification, a citation that the AI
\* classified beside one that kept the confidence of its creation.
C16_Witness ==
  /\ pc = "store"
  /\ \E k \in 1..Len(wk_citations) : wk_citations[k].confidence = CONF_AI
  /\ \E k \in 1..Len(wk_citations) : wk_citations[k].confidence = CONF_FULL

\* C17: the stages run in the stated order, the Rule-Based Reclassifier after
\* the Short-Form Resolver and before the Merger and the Sorter: what the
\* merge (step 6) and the sort (step 8) of detect work on has the categories
\* and confidences that reclassify assigns, so that reclassify would change
\* nothing in it.
C17_MergeAndSortSeeReclassified ==
  /\ pc \in {"step6", "merge_full", "merge_short"} => full_cites = reclassify(full_cites)
  /\ pc = "step8" => result = reclassify(result)

(***************************************************************************)
(* Properties of the resolution of the short forms (Spec, at the return of *)
(* resolve_short_forms: pc = "step6").                                     *)
(***************************************************************************)

\* The places in full_cites of the full citations on a page not after p.
not_after(p) == {i \in 1..Len(full_cites) : min_page(full_cites[i]) <= p}

\* The place in full_cites of the last full citation, in the ordering by
\* minimum page ascending (citations of one minimum page in the order of the
\* list), among those on a page not after p.
last_not_after(p) ==
  CHOOSE b \in not_after(p) :
    \A i \in not_after(p) :
      \/ min_page(full_cites[i]) < min_page(full_cites[b])
      \/ min_page(full_cites[i]) = min_page(full_cites[b]) /\ i <= b

\* C18: an Id./Ibid. short form on page p is resolved to the last full
\* citation, in the ordering by minimum page ascending, whose minimum page is
\* at most p; if every full citation is on a later page, it is left
\* unresolved.
C18_IdResolvesToLastNotAfter ==
  pc = "step6" =>
    \A k \in 1..Len(short_cites) :
      SHORT_FORM_TESTS[short_cites[k].full_text].id =>
        IF not_after(min_page(short_cites[k])) = {}
        THEN short_cites[k].parent_key = None
        ELSE short_cites[k].parent_key =
               full_cites[last_not_after(min_page(short_cites[k]))].normalized_key

\* An Id. on page 2, after a full citation on page 1 and one on page 2, is
\* resolved to the one of page 2 and not to the one of page 1.
C18_Witness ==
  /\ pc = "step6"
  /\ \E k \in 1..Len(short_cites) :
       /\ SHORT_FORM_TESTS[short_cites[k].full_text].id
       /\ min_page(short_cites[k]) = 2
       /\ Cardinality(not_after(2)) = 2
       /\ \E i \in not_after(2) :
            /\ min_page(full_cites[i]) = 2
            /\ short_cites[k].parent_key = full_cites[i].normalized_key
       /\ \E i \in not_after(2) :
            /\ min_page(full_cites[i]) = 1
            /\ short_cites[k].parent_key # full_cites[i].normalized_key

\* The place in citations, which is in document order, of the k-th short
\* form.
short_place(k) ==
  CHOOSE j \in 1..Len(citations) :
    /\ citations[j].is_short_form
    /\ Cardinality({i \in 1..j : citations[i].is_short_form}) = k

\* The places in citations of the full citations before the k-th short form.
fulls_before(k) == {i \in 1..(short_place(k) - 1) : ~citations[i].is_short_form}

\* C19: every resolved short form is linked to a prior citation: a full
\* citation with the key that became its parent_key occurs earlier in the
\* document than the short form; and for an Id. that full citation is the
\* most recent one before it in document order.
C19_ResolvedToPrior ==
  pc = "step6" =>
    \A k \in 1..Len(short_cites) :
      resolved(short_cites[k]) =>
        /\ \E i \in fulls_before(k) :
             citations[i].normalized_key = short_cites[k].parent_key
        /\ SHORT_FORM_TESTS[short_cites[k].full_text].id =>
             citations[CHOOSE i \in fulls_before(k) : \A j \in fulls_before(k) : j <= i]
               .normalized_key = short_cites[k].parent_key

\* The short form sc is a supra: its text does not begin with Id. or Ibid.
\* and contains "supra".
is_supra(sc) ==
  /\ ~SHORT_FORM_TESTS[sc.full_text].id
  /\ SHORT_FORM_TESTS[sc.full_text].supra

\* The places in full_cites, which is in document order, of the full
\* citations whose leading party contains the name or starts with it.
with_party(name) ==
  {i \in 1..Len(full_cites) :
     \/ contains(first_party(full_cites[i]), name)
     \/ startswith(first_party(full_cites[i]), name)}

is_short_pincite(sc) ==
  /\ ~SHORT_FORM_TESTS[sc.full_text].id
  /\ ~SHORT_FORM_TESTS[sc.full_text].supra

\* The places in full_cites, in the order of the list, of the full citations
\* whose first volume and reporter are vol.
with_volume(vol) ==
  {i \in 1..Len(full_cites) : SHORT_FORM_TESTS[full_cites[i].full_text].full_vol = vol}

C22_ResolveFrame ==
  pc = "step6" =>
    /\ full_cites = SelectSeq(citations, LAMBDA c : ~c.is_short_form)
    /\ Len(short_cites) = Cardinality({j \in 1..Len(citations) : citations[j].is_short_form})
    /\ \A k \in 1..Len(short_cites) :
         /\ short_cites[k] =
              [citations[short_place(k)] EXCEPT !.parent_key = short_cites[k].parent_key,
                                                !.category = short_cites[k].category]
         /\ IF resolved(short_cites[k])
            THEN \E i \in 1..Len(full_cites) :
                   /\ short_cites[k].parent_key = full_cites[i].normalized_key
                   /\ short_cites[k].category = full_cites[i].category
            ELSE short_cites[k] = citations[short_place(k)]

\* A short form, created as a case, is resolved to a statute and has its
\* category.
C22_Witness ==
  /\ pc = "step6"
  /\ \E k \in 1..Len(short_cites) :
       /\ resolved(short_cites[k])
       /\ short_cites[k].category = STATUTES
       /\ citations[short_place(k)].category = CASES

(***************************************************************************)
(* The mapping of reclassify (SpecReclassify).                             *)
(***************************************************************************)

\* The text of a Cases entry carries a treatise signal or a law-review or
\* journal signal.
signalled(cite) ==
  TEXT_TESTS[cite.full_text].treatise \/ TEXT_TESTS[cite.full_text].law_review

\* The text has neither a " v." nor a " v " separator, nor an In re, Ex parte
\* or Matter of prefix.
no_parties(cite) ==
  /\ ~TEXT_TESTS[cite.full_text].v_dot
  /\ ~TEXT_TESTS[cite.full_text].v_space
  /\ ~TEXT_TESTS[cite.full_text].no_party

\* C23: reclassify maps each entry as follows and changes nothing else.  A
\* short form and an entry that is not a case are left as they are; a case
\* with a treatise or law-review signal becomes Other Authorities with
\* confidence 0.9; another case without party separator and without In re,
\* Ex parte or Matter of prefix stays a case and gets confidence 0.6; every
\* other case is left as it is.
C23_ReclassifyMapping ==
  pc = "once" =>
    /\ Len(ret[1]) = Len(arg)
    /\ \A i \in 1..Len(arg) :
         ret[1][i] =
           CASE arg[i].is_short_form \/ arg[i].category # CASES -> arg[i]
             [] ~arg[i].is_short_form /\ arg[i].category = CASES /\ signalled(arg[i]) ->
                  [arg[i] EXCEPT !.category = OTHER_AUTHORITIES, !.confidence = 90]
             [] /\ ~arg[i].is_short_form /\ arg[i].category = CASES
                /\ ~signalled(arg[i]) /\ no_parties(arg[i]) ->
                  [arg[i] EXCEPT !.confidence = 60]
             [] OTHER -> arg[i]

\* reclassify has left a case as it was for its In re prefix, its text
\* having no party separator and no signal.
C23_Witness ==
  /\ pc = "once"
  /\ \E i \in 1..Len(arg) :
       /\ ~arg[i].is_short_form /\ arg[i].category = CASES /\ ~signalled(arg[i])
       /\ ~TEXT_TESTS[arg[i].full_text].v_dot /\ ~TEXT_TESTS[arg[i].full_text].v_space
       /\ TEXT_TESTS[arg[i].full_text].no_party
       /\ arg[i].confidence = 30
       /\ ret[1][i] = arg[i]

(***************************************************************************)
(* Properties of the registry order (SpecRegistry).                        *)
(***************************************************************************)

\* The accepted intervals of a list of matches.
intervals(matches) == {<<m.start, m.end>> : m \in Range(matches)}

\* The accepted intervals, each with its category and whether it is a short
\* form.
classified_intervals(matches) ==
  {<<m.start, m.end, m.category, name_startswith(m.pattern_name, "short_")>> :
     m \in Range(matches)}

\* The place of the rule named name in a registry.
place_in(registry, name) == CHOOSE i \in DOMAIN registry : registry[i].name = name

\* Of the hits on the interval of m, m is the hit of the first rule of the
\* registry.
of_first_rule(registry, m) ==
  \A h \in arg.hits :
    h.start = m.start /\ h.end = m.end
      => place_in(registry, m.pattern_name) <= place_in(registry, h.pattern_name)

rank(matches, i) ==
  Cardinality({j \in DOMAIN matches :
    \/ length(matches[j]) > length(matches[i])
    \/ /\ length(matches[j]) = length(matches[i])
       /\ matches[j].start < matches[i].start
    \/ /\ length(matches[j]) = length(matches[i])
       /\ matches[j].start = matches[i].start
       /\ j < i})

\* The candidates in that order.
candidates(matches) ==
  [r \in DOMAIN matches |-> matches[CHOOSE i \in DOMAIN matches : rank(matches, i) = r - 1]]

\* The places, among the first n candidates, of those the greedy procedure
\* accepts: a candidate is accepted iff it intersects no accepted one.
RECURSIVE greedy(_, _)
greedy(sorted, n) ==
  IF n = 0 THEN {}
  ELSE LET before == greedy(sorted, n - 1)
       IN IF \E j \in before :
               sorted[j].start < sorted[n].end /\ sorted[j].end > sorted[n].start
          THEN before
          ELSE before \cup {n}

\* C25: _remove_overlaps returns exactly the matches that the greedy
\* procedure accepts (candidates by length descending, ties by start
\* ascending; accepted iff intersecting no accepted interval), in the order
\* of their starts.
C25_ExactlyTheGreedySelection ==
  pc = "returned" =>
    LET sorted == candidates(arg)
        chosen == greedy(sorted, Len(sorted))
    IN /\ Len(ret) = Cardinality(chosen)
       /\ Range(ret) = {sorted[i] : i \in chosen}
       /\ \A i, j \in DOMAIN ret : i < j => ret[i].start < ret[j].start

\* A later, longer match is accepted before an earlier, shorter one, and a
\* third match is discarded: the order of the result is not the order of
\* acceptance.
C25_Witness ==
  /\ pc = "returned"
  /\ Len(arg) = 3
  /\ Len(ret) = 2
  /\ length(ret[2]) > length(ret[1])

(***************************************************************************)
(* The absolute intervals of the scanner (Spec).                           *)
(***************************************************************************)

\* The sum of the lengths of the texts of the pages before the k-th.
RECURSIVE offset_of(_)
offset_of(k) == IF k <= 1 THEN 0 ELSE offset_of(k - 1) + Len(pages[k - 1].text)

\* What the patterns match in the text of the k-th page, at the offsets in
\* that text.
local_hits(k) == (CHOOSE e \in Range(SAMPLE_PAGES) : e.text = pages[k].text).hits

\* The page, rule and interval of a match.
placed(m) ==
  [page |-> m.page, pattern_name |-> m.pattern_name, start |-> m.start, end |-> m.end]

\* The matches of the document, each at offset(page) + its local interval.
absolute_hits ==
  UNION {{[page         |-> pages[k].page,
           pattern_name |-> h.pattern_name,
           start        |-> offset_of(k) + h.start,
           end          |-> offset_of(k) + h.end] : h \in Range(local_hits(k))} :
         k \in DOMAIN pages}

\* C26: the scanner gives every match the interval
\* [offset(page) + local start, offset(page) + local end), offset(page) being
\* the sum of the lengths of the texts of the earlier pages; matches of
\* different pages never intersect, and a match that overlap arbitration
\* discards intersects an accepted match of its own page and none of another
\* page.
C26_AbsoluteIntervals ==
  /\ pc = "step2" =>
       /\ {placed(m) : m \in Range(raw_matches)} = absolute_hits
       /\ Len(raw_matches) = Cardinality(absolute_hits)
       /\ \A m, n \in Range(raw_matches) : m.page # n.page => ~intersect(m, n)
  /\ pc = "step3" =>
       \A d \in absolute_hits \ {placed(m) : m \in Range(raw_matches)} :
         /\ \E a \in Range(raw_matches) : a.page = d.page /\ intersect(a, d)
         /\ \A a \in Range(raw_matches) : a.page # d.page => ~intersect(a, d)

\* A document of two pages with a match accepted on the first and a match
\* discarded on the second, after overlap arbitration.
C26_Witness ==
  /\ pc = "step3"
  /\ Len(pages) = 2
  /\ \E a \in Range(raw_matches) : a.page = 1
  /\ \E d \in absolute_hits \ {placed(m) : m \in Range(raw_matches)} :
       d.page = 2 /\ d.start >= Len(pages[1].text)

(***************************************************************************)
(* The normalized key and the spelling of a citation (Spec).               *)
(***************************************************************************)

\* The text without whitespace and periods, in lower case: equal for two
\* texts that differ only in letter case, whitespace or periods.
squeezed(text) ==
  lower(SelectSeq(text, LAMBDA c : c \notin {" ", "\t", "\n", "."}))

\* The two pattern names are of one family.
same_family(a, b) ==
  \E f \in {"case_", "statute_", "rule_", "const_", "other_"} :
    name_startswith(a, f) /\ name_startswith(b, f)

\* C27: two accepted full-form matches of the same pattern family whose
\* texts differ only in letter case, whitespace or periods receive the same
\* normalized_key, and the list returned has one entry for them.
C27_KeyInsensitiveToSpelling ==
  /\ pc = "step3" =>
       \A m, n \in Range(raw_matches) :
         /\ same_family(m.pattern_name, n.pattern_name)
         /\ squeezed(m.text) = squeezed(n.text)
         => NORMALIZED[m.text, m.pattern_name] = NORMALIZED[n.text, n.pattern_name]
  /\ \A r \in 1..Len(returned) :
       \A i, j \in 1..Len(returned[r]) :
         /\ returned[r][i].category = returned[r][j].category
         /\ squeezed(returned[r][i].full_text) = squeezed(returned[r][j].full_text)
         => i = j

(***************************************************************************)
(* The greedy selection is maximal (SpecOverlap).                          *)
(***************************************************************************)

\* C28: every raw match that _remove_overlaps discards intersects at least
\* one accepted match that is at least as long as it.
C28_DiscardedMeetsAcceptedAsLong ==
  pc = "returned" =>
    \A i \in 1..Len(arg) :
      ~accepted(arg[i])
        => \E c \in Range(ret) : intersect(c, arg[i]) /\ length(c) >= length(arg[i])

\* A match is discarded for an accepted match of its own length that begins
\* before it, and intersects no longer accepted match.
C28_Witness ==
  /\ pc = "returned"
  /\ \E i \in 1..Len(arg) :
       /\ ~accepted(arg[i])
       /\ \E c \in Range(ret) :
            intersect(c, arg[i]) /\ length(c) = length(arg[i]) /\ c.start < arg[i].start
       /\ \A c \in Range(ret) : intersect(c, arg[i]) => length(c) <= length(arg[i])

(***************************************************************************)
(* The entries of the list returned by detect (Spec).                      *)
(***************************************************************************)

\* The normalized keys of the accepted full-form matches.
accepted_full_keys ==
  {NORMALIZED[m.text, m.pattern_name] :
     m \in {n \in Range(raw_matches) : ~name_startswith(n.pattern_name, "short_")}}

\* C29: the list that detect returns has exactly one entry for each distinct
\* normalized_key among the accepted full-form matches and no other entry;
\* it is empty when no full-form match was accepted, whatever the number of
\* short forms.
C29_OneEntryPerFullKey ==
  pc = "reclassify" =>
    LET last == returned[Len(returned)]
    IN /\ {e.normalized_key : e \in Range(last)} = accepted_full_keys
       /\ Len(last) = Cardinality(accepted_full_keys)
       /\ accepted_full_keys = {} => last = <<>>

\* detect has returned the empty list on a document whose accepted matches
\* are short forms only.
C29_Witness ==
  /\ pc = "reclassify"
  /\ raw_matches # <<>>
  /\ accepted_full_keys = {}
  /\ returned[Len(returned)] = <<>>

(***************************************************************************)
(* gui/tabs/upload_tab.py: the two buttons of the upload tab and the       *)
(* worker thread (SpecUpload).  arg holds the state of the widgets and the *)
(* locals of the worker, ret the callbacks handed to self.after(0, ...) in *)
(* the order of the calls, pc the position of the worker thread ("idle"    *)
(* when none runs), run the number of threads started.  The calls of the   *)
(* worker (parse_docx, parse_pdf, detect, reclassify, classify_ambiguous)  *)
(* are taken by their outcome: a value or an exception.  One worker at a   *)
(* time is followed.                                                       *)
(***************************************************************************)

\* The suffixes of the files that _browse may set as project.source_type.
SOURCE_TYPES == {"docx", "pdf", "txt"}

\* self.after(0, callback), for each callback of a list.
after(queue, callbacks) == queue \o callbacks

\* _re_enable scheduling the Detect button only.
re_enable_process_only(queue) == after(queue, <<"process_btn normal">>)

\* UploadTab._re_enable
re_enable(queue) == after(queue, <<"process_btn normal", "browse_btn normal">>)

InitUpload ==
  /\ pc = "idle"
  /\ run = 0
  /\ arg = [process_btn |-> "disabled", browse_btn |-> "normal",
            source_type |-> "", has_pages |-> FALSE, ambiguous |-> FALSE]
  /\ ret = <<>>
  /\ pages = <<>>
  /\ raw_matches = <<>>
  /\ citations = <<>>
  /\ full_cites = <<>>
  /\ short_cites = <<>>
  /\ key_to_cite = <<>>
  /\ idx = 1
  /\ result = <<>>
  /\ returned = <<>>
  /\ wk_citations = <<>>
  /\ project_citations = <<>>

upload_unchanged ==
  <<pages, detect_locals, returned, wk_citations, project_citations>>

\* UploadTab._browse with a file chosen: the Detect button is enabled.
Upload_Browse ==
  /\ arg.browse_btn = "normal"
  /\ \E ext \in SOURCE_TYPES :
       arg' = [arg EXCEPT !.source_type = ext, !.process_btn = "normal"]
  /\ UNCHANGED <<pc, run, ret, upload_unchanged>>

\* UploadTab._process: both buttons are disabled, then the thread is started.
Upload_Process ==
  /\ arg.process_btn = "normal"
  /\ pc = "idle"
  /\ run < MaxRuns
  /\ arg' = [arg EXCEPT !.process_btn = "disabled", !.browse_btn = "disabled"]
  /\ run' = run + 1
  /\ pc' = "parse"
  /\ UNCHANGED <<ret, upload_unchanged>>

\* _detect_worker, step 1, for a .docx or .pdf: the parser returns pages, or
\* none.
Upload_Parse ==
  /\ pc = "parse"
  /\ arg.source_type \in {"docx", "pdf"}
  /\ \E some \in BOOLEAN :
       /\ arg' = [arg EXCEPT !.has_pages = some]
       /\ pc' = IF some THEN "detect" ELSE "no_text"
  /\ ret' = after(ret, <<"progress 0.2", "status Parsing">>)
  /\ UNCHANGED <<run, upload_unchanged>>

\* _detect_worker, step 1, for another file type.
Upload_Unsupported ==
  /\ pc = "parse"
  /\ arg.source_type \notin {"docx", "pdf"}
  /\ ret' = re_enable(after(ret, <<"progress 0.2", "status Parsing",
                                   "status Unsupported">>))
  /\ pc' = "idle"
  /\ UNCHANGED <<run, arg, upload_unchanged>>

\* _detect_worker: "if not pages".
Upload_NoText ==
  /\ pc = "no_text"
  /\ ret' = re_enable(after(ret, <<"status No text found">>))
  /\ pc' = "idle"
  /\ UNCHANGED <<run, arg, upload_unchanged>>

\* _detect_worker, step 2: detector.detect(pages) returns.
Upload_Detect ==
  /\ pc = "detect"
  /\ ret' = after(ret, <<"progress 0.5", "status Detecting">>)
  /\ pc' = "reclassify"
  /\ UNCHANGED <<run, arg, upload_unchanged>>

\* _detect_worker, step 3: reclassify(citations) returns; get_ambiguous finds
\* citations or none.
Upload_Reclassify ==
  /\ pc = "reclassify"
  /\ ret' = after(ret, <<"progress 0.7", "status Classifying">>)
  /\ \E some \in BOOLEAN : arg' = [arg EXCEPT !.ambiguous = some]
  /\ pc' = "classify"
  /\ UNCHANGED <<run, upload_unchanged>>

\* _detect_worker, step 4: with ambiguous citations, classify_ambiguous
\* returns (settings.ai_enabled) or the AI is off; without, neither branch.
Upload_Classify ==
  /\ pc = "classify"
  /\ \E ai_enabled \in BOOLEAN :
       ret' = after(ret, IF ~arg.ambiguous THEN <<>>
                         ELSE IF ai_enabled THEN <<"status AI classifying">>
                         ELSE <<"status AI off">>)
  /\ pc' = "store"
  /\ UNCHANGED <<run, arg, upload_unchanged>>

\* _detect_worker, steps 5 to 7 and the end: the results are shown, the
\* buttons re-enabled and the parent notified.
Upload_Finish ==
  /\ pc = "store"
  /\ \E on_complete \in BOOLEAN :
       ret' = after(re_enable(after(ret, <<"progress 0.9", "progress 1.0",
                                           "status Detection complete",
                                           "results", "cost estimates">>)),
                    IF on_complete THEN <<"on_complete">> ELSE <<>>)
  /\ pc' = "idle"
  /\ UNCHANGED <<run, arg, upload_unchanged>>

\* A call of the try block raises an Exception.
Upload_Raise ==
  /\ \/ pc = "parse" /\ arg.source_type \in {"docx", "pdf"}
     \/ pc \in {"detect", "reclassify", "classify", "store"}
  /\ pc' = "except"
  /\ UNCHANGED <<run, arg, ret, upload_unchanged>>

\* _detect_worker: the handler "except Exception as e".
Upload_Except ==
  /\ pc = "except"
  /\ ret' = re_enable(after(ret, <<"status Error", "progress 0">>))
  /\ pc' = "idle"
  /\ UNCHANGED <<run, arg, upload_unchanged>>

\* The main loop of Tk runs the first scheduled callback.
MainLoop_Callback ==
  /\ ret # <<>>
  /\ arg' = IF Head(ret) = "process_btn normal"
              THEN [arg EXCEPT !.process_btn = "normal"]
            ELSE IF Head(ret) = "browse_btn normal"
              THEN [arg EXCEPT !.browse_btn = "normal"]
            ELSE arg
  /\ ret' = Tail(ret)
  /\ UNCHANGED <<pc, run, upload_unchanged>>

\* The steps of the worker thread.
DetectWorker ==
  \/ Upload_Parse
  \/ Upload_Unsupported
  \/ Upload_NoText
  \/ Upload_Detect
  \/ Upload_Reclassify
  \/ Upload_Classify
  \/ Upload_Finish
  \/ Upload_Raise
  \/ Upload_Except

NextUpload ==
  \/ Upload_Browse
  \/ Upload_Process
  \/ DetectWorker
  \/ MainLoop_Callback

SpecUpload == InitUpload /\ [][NextUpload]_vars

\* The thread, once started, is scheduled, and each of its calls returns or
\* raises.
FairSpecUpload == SpecUpload /\ WF_vars(DetectWorker)

(***************************************************************************)
(* Properties of the upload tab (FairSpecUpload).                          *)
(***************************************************************************)

\* No worker thread runs.
worker_idle == pc = "idle"

\* The callback was handed to self.after between the queue old and the queue
\* new.
scheduled_since(old, new, callback) ==
  \E k \in (Len(old) + 1)..Len(new) : new[k] = callback

\* C30: _process disables the Browse and the Detect button before it starts
\* the worker thread, and every run of the worker, whatever its outcome
\* (unsupported file type, no text found, success, exception), comes to its
\* end and there schedules the re-enabling of both buttons.
C30_WorkerAlwaysReEnables ==
  /\ [][worker_idle /\ ~worker_idle'
          => arg'.process_btn = "disabled" /\ arg'.browse_btn = "disabled"]_vars
  /\ [][~worker_idle /\ worker_idle'
          => /\ scheduled_since(ret, ret', "process_btn normal")
             /\ scheduled_since(ret, ret', "browse_btn normal")]_vars
  /\ ~worker_idle ~> worker_idle

\* A run of the worker has ended in the exception handler: both buttons are
\* still disabled and the two callbacks that enable them are the last ones
\* scheduled, after the error status.
C30_Witness ==
  /\ pc = "idle"
  /\ run = 1
  /\ arg.process_btn = "disabled"
  /\ arg.browse_btn = "disabled"
  /\ Len(ret) >= 4
  /\ SubSeq(ret, Len(ret) - 3, Len(ret)) =
       <<"status Error", "progress 0", "process_btn normal", "browse_btn normal">>

====
